---------------------------- MODULE Spec2Model ----------------------------
(***************************************************************************)
(* Step-loop controller of the osuniverse desktop agents.                  *)
(*                                                                         *)
(* Two agents are modelled from their source:                              *)
(*   "claude" : agents/claude_computer_use/claude_computer_use/agent.py    *)
(*   "cua"    : agents/cua/cua/agent.py with cua/actor/oai.py and          *)
(*              cua/actor/action_parser.py                                 *)
(*                                                                         *)
(* solve_task runs `for i in range(max_steps)`; every iteration calls      *)
(* take_action, which tenacity's @retry(stop=stop_after_attempt(5))        *)
(* re-invokes after every raised Exception.  One invocation of the body of *)
(* take_action is modelled by two actions: Poll (the cancellation check at *)
(* its entry) and Act (the model call, the dispatch and the recording).    *)
(*                                                                         *)
(* The environment is the model client, the device and the task tracker.  *)
(* Calls that may raise: the model call, the parse of its response,        *)
(* device.use, device.take_screenshots and task.record_action.  task.save, *)
(* task.refresh and task.post_message are taken to return: solve_task      *)
(* itself calls save and post_message inside its `except` handler.         *)
(***************************************************************************)
EXTENDS Integers, Sequences, FiniteSets, TLC

(***************************************************************************)
(* Bounds of the model.                                                    *)
(***************************************************************************)
MaxSteps == 3
MaxBlocks == 2
\* turns of a message history handed to the context trimming
MaxTurns == 4
\* largest images_to_keep and min_removal_threshold handed to it
MaxKeep == 3
MaxThreshold == 2
\* largest pixel delta of a scroll payload, either way
MaxScroll == 30
\* calls of take_action followed for the CUA actor's item list
MaxCalls == 3
\* items of an actor's list handed to the screenshot clean-up
MaxItems == 7
\* Number of test cases of a benchmark
MaxCases == 2
\* Number of checks of a test case
MaxChecks == 2
\* Number of values given to --max-steps
MaxValues == 5
\* Number of model responses of a run, and the tokens of one
MaxResponses == 2
MaxUsage == 2

(***************************************************************************)
(* Program constants.                                                      *)
(***************************************************************************)
MaxAttempts == 5
\* self._maybe_filter_to_n_most_recent_images(messages, 3, 2)
ImagesToKeep == 3
MinRemovalThreshold == 2
\* OaiActor.keep_images
KeepImages == 5
\* SurfkitAgentRunner.run: for i_try in range(5)
RunnerTries == 5
\* run_testcase: for i in range(3)
ValidationTries == 3

Agents == {"claude", "cua"}

\* taskara.TaskStatus values the loops read or write.
IN_PROGRESS == "in progress"
CANCELING == "canceling"
CANCELED == "canceled"
FINISHED == "finished"
FAILED == "failed"

TerminalStatuses == {FINISHED, FAILED, CANCELED}

(***************************************************************************)
(* Exceptions and their str().  A text is a sequence of string pieces.     *)
(***************************************************************************)
NoExc == [type |-> "none", text |-> <<>>]

Exc(type, text) == [type |-> type, text |-> text]

\* str(e) of an exception built by Exc
Str(e) == e.text

\* KeyError(key): str() of a KeyError is the repr of the key
KeyError(key) == Exc("KeyError", <<"'", key, "'">>)

ActionNotFound == Exc("SystemError", <<"action not found">>)

\* ValueError(f"Trouble using action: {e}")
TroubleUsingAction(e) == Exc("ValueError", <<"Trouble using action: ">> \o Str(e))

NoOutputFromModel == Exc("ValueError", <<"No output from model">>)

\* What the environment's failing calls raise.
ModelError == Exc("APIError", <<"model call failed">>)
ParseError == Exc("ValidationError", <<"response failed to parse">>)
DeviceUseError == Exc("DeviceError", <<"device.use failed">>)
ScreenshotError == Exc("DeviceError", <<"take_screenshots failed">>)
RecordError == Exc("TrackerError", <<"record_action failed">>)

\* tenacity.RetryError(last_attempt), raised by @retry (reraise is not set)
\* once stop_after_attempt(5) holds; its str() names the future, not the
\* message of the exception the last attempt raised.
RetryError(last) ==
    Exc("RetryError",
        <<"RetryError[<Future state=finished raised ", last.type, ">]">>)

(***************************************************************************)
(* Messages posted to the task.                                            *)
(***************************************************************************)
NoMessage == <<>>
MsgRetrying(e) == <<"Error taking action: ">> \o Str(e) \o <<" -- retrying...">>
MsgError(e) == <<"Error taking action: ">> \o Str(e)
MsgMaxSteps == <<"Max steps reached without solving task">>
MsgDone(text) == <<"I think the task is done, please review the result: ", text>>
MsgThought(text) == <<"thought: ", text>>
MsgTaking(name) == <<"Taking action '", name, "'">>
MsgActionResult == <<"Result from taking action">>
MsgCurrentImage == <<"Current Image">>


(***************************************************************************)
(* What the environment supplies to one invocation of take_action.         *)
(***************************************************************************)
\* The text a model response carries (its first text block, or the text of
\* a CUA message item).
Texts == {"the answer"}

\* Which call of the invocation raises, if any; `at` is the index of the
\* content block or output item whose call raises (0: not block-bound).
NoFault == [call |-> "none", at |-> 0]

\* The faults that can strike an invocation whose response has n blocks.
Faults(n) ==
    {NoFault}
    \cup {[call |-> c, at |-> 0] : c \in {"model", "parse", "prevshot"}}
    \cup {[call |-> c, at |-> k] : c \in {"use", "shot", "record"}, k \in 1..n}

\* Canonical action names the device exposes.  The device of the model is
\* one that lacks two of the names the agents may ask for, so that both
\* outcomes of device.find_action occur.
DeviceActions == {"click", "take_screenshots"}

\* device.find_action(name): the action when the device exposes it, else
\* nothing (falsy).
find_action(name) == name \in DeviceActions

\* Whether device.use of the action returns something truthy, which the
\* agents then post as "Result from taking action".
ActionResponds(name) == name = "mouse_coordinates"

(***************************************************************************)
(* The effect of one invocation of the body of take_action.                *)
(***************************************************************************)
NoRec == [name |-> "none", value |-> "", shot |-> 0]

\* OaiActor.last_action_type / last_call_id when no call awaits its output.
NoCall == "none"

\* The state an invocation starts from: nothing called yet.  `last` is the
\* CUA actor's last_action_type (NoCall for the Claude agent, which has no
\* actor); `observed` is the status its cancellation check saw ("": not
\* checked yet); `parsed` is the number of actions the model's response
\* carries; `drecs` counts the recorded actions that went through device.use.
Acc0(status, saved, last) ==
    [observed |-> "", raised |-> FALSE, exc |-> NoExc, done |-> FALSE,
     status |-> status, saved |-> saved, last_action_type |-> last,
     calls |-> 0, parsed |-> 0, uses |-> 0, shots |-> 0, recs |-> 0,
     drecs |-> 0, results |-> 0, lastRec |-> NoRec, posts |-> <<>>, saw |-> {}]

Post(acc, msg) == [acc EXCEPT !.posts = Append(@, msg)]

Saw(acc, what) == [acc EXCEPT !.saw = @ \cup {what}]

\* except Exception as e: task.post_message(... retrying ...); raise e
RaiseRetrying(acc, e) ==
    [Post(acc, MsgRetrying(e)) EXCEPT !.raised = TRUE, !.exc = e]

\* an observation step that captures nothing
NoScreenshot(acc) == acc

\* device.take_screenshots()[0]: the n-th screenshot of this invocation
TakeScreenshot(acc) == [acc EXCEPT !.shots = @ + 1]

\* task.record_action(state=EnvState(images=[shot]), action=V1Action(name, ...))
RecordAction(acc, name, value) ==
    [acc EXCEPT !.recs = @ + 1,
                !.drecs = IF name \in {"result", "take_screenshots"} THEN @ ELSE @ + 1,
                !.lastRec = [name |-> name, value |-> value, shot |-> acc.shots]]

(***************************************************************************)
(* Claude: agents/claude_computer_use/claude_computer_use/agent.py         *)
(***************************************************************************)
\* self.action_mapping
action_mapping ==
    [a \in {"key", "type", "mouse_move", "left_click", "left_click_drag",
            "right_click", "middle_click", "double_click", "screenshot",
            "cursor_position"} |->
        CASE a = "key" -> "hot_key"
          [] a = "type" -> "type_text"
          [] a = "mouse_move" -> "move_mouse"
          [] a = "left_click" -> "click"
          [] a = "left_click_drag" -> "drag_mouse"
          [] a = "right_click" -> "click"
          [] a = "middle_click" -> "click"
          [] a = "double_click" -> "double_click"
          [] a = "screenshot" -> "take_screenshots"
          [] a = "cursor_position" -> "mouse_coordinates"]

\* Content blocks of a Claude response: a text block or a tool_use block
\* whose input names a dialect action.
TextBlock == [type |-> "text", action |-> ""]
ToolUse(a) == [type |-> "tool_use", action |-> a]

ClaudeToolActions == {"left_click", "screenshot", "cursor_position", "teleport"}

ClaudeBlocks == {TextBlock} \cup {ToolUse(a) : a \in ClaudeToolActions}

SeqsUpTo(S, n) == UNION {[1..k -> S] : k \in 1..n}

\* end_turn responses carry their final text first; other stop reasons
\* (tool_use, max_tokens) carry any blocks.
ClaudeResponses ==
    {[stop_reason |-> "end_turn", text |-> t, content |-> <<TextBlock>>] : t \in Texts}
    \cup {[stop_reason |-> "other", text |-> t, content |-> c] :
            t \in Texts, c \in SeqsUpTo(ClaudeBlocks, MaxBlocks)}

\* lines 240-265: the end_turn branch
ClaudeEndTurn(acc, resp, fault) ==
    LET a1 == [Post(acc, MsgDone(resp.text)) EXCEPT !.status = FINISHED,
                                                    !.saved = FINISHED]
    IN  IF fault.call = "shot" /\ fault.at = 1
        THEN RaiseRetrying(a1, ScreenshotError)
        ELSE LET a2 == TakeScreenshot(a1)
             IN  IF fault.call = "record" /\ fault.at = 1
                 THEN RaiseRetrying(a2, RecordError)
                 ELSE [RecordAction(a2, "result", resp.text) EXCEPT !.done = TRUE]

\* lines 275-359: one tool_use block
ClaudeToolUseBlock(acc, block, k, fault) ==
    IF block.action \notin DOMAIN action_mapping
    THEN RaiseRetrying(Saw(acc, "unknown"), KeyError(block.action))
    ELSE
    LET action_name == action_mapping[block.action]
        a1 == Post(acc, MsgTaking(action_name))
    IN  IF ~find_action(action_name)
        THEN RaiseRetrying(Saw(a1, "notfound"), ActionNotFound)
        ELSE IF action_name # "take_screenshots" /\ fault.call = "use" /\ fault.at = k
        THEN RaiseRetrying(a1, TroubleUsingAction(DeviceUseError))
        ELSE
        LET a2 == IF action_name # "take_screenshots"
                  THEN LET u == [a1 EXCEPT !.uses = @ + 1]
                       IN  IF ActionResponds(action_name)
                           THEN Post(u, MsgActionResult) ELSE u
                  ELSE a1
        IN  IF fault.call = "shot" /\ fault.at = k
            THEN RaiseRetrying(a2, ScreenshotError)
            ELSE
            LET a3 == [Post(TakeScreenshot(a2), MsgCurrentImage)
                          EXCEPT !.results = @ + 1]
            IN  IF fault.call = "record" /\ fault.at = k
                THEN RaiseRetrying(a3, RecordError)
                ELSE RecordAction(a3, action_name, "")

\* lines 270-359: for content_block in response_params
RECURSIVE ClaudeContentLoop(_, _, _, _)
ClaudeContentLoop(acc, resp, k, fault) ==
    IF acc.raised \/ k > Len(resp.content)
    THEN acc
    ELSE LET block == resp.content[k]
         IN  IF block.type = "text"
             THEN ClaudeContentLoop(Post(acc, MsgThought(resp.text)),
                                    resp, k + 1, fault)
             ELSE ClaudeContentLoop(ClaudeToolUseBlock(acc, block, k, fault),
                                    resp, k + 1, fault)

\* the tool_use blocks of response_params: the actions the response asks for
ClaudeParsed(resp) ==
    Cardinality({k \in 1..Len(resp.content) : resp.content[k].type = "tool_use"})

\* lines 210-372: take_action after the cancellation check
ClaudeTakeAction(acc, resp, fault) ==
    IF fault.call = "model"
    THEN RaiseRetrying(acc, ModelError)
    ELSE
    LET a1 == [acc EXCEPT !.calls = 1]
    IN  IF fault.call = "parse"
        THEN RaiseRetrying(a1, ParseError)
        ELSE IF resp.stop_reason = "end_turn"
        THEN ClaudeEndTurn(Saw(a1, "done"), resp, fault)
        ELSE
        LET a2 == ClaudeContentLoop([a1 EXCEPT !.parsed = ClaudeParsed(resp)],
                                    resp, 1, fault)
        IN  IF a2.raised THEN a2
            ELSE IF a2.results = 0
            THEN [Saw(a2, "noaction") EXCEPT !.done = TRUE]
            ELSE a2

(***************************************************************************)
(* CUA: agents/cua/cua/agent.py, cua/actor/oai.py, cua/actor/action_parser *)
(***************************************************************************)
\* parse_action returns None for an action type it has no branch for.
NoAction == "none"

\* action_parser.parse_action: the canonical name of the V1Action it builds
parse_action(action_type) ==
    CASE action_type = "click" -> "click"
      [] action_type = "double_click" -> "double_click"
      [] action_type = "scroll" -> "scroll"
      [] action_type = "type" -> "type_text"
      [] action_type = "move" -> "move_mouse"
      [] action_type = "keypress" -> "hot_key"
      [] action_type = "drag" -> "drag_mouse"
      [] action_type = "wait" -> "wait"
      [] OTHER -> NoAction

\* Items of response["output"].
ReasoningItem == [type |-> "reasoning", action |-> ""]
MessageItem == [type |-> "message", action |-> ""]
CallItem(type, a) == [type |-> type, action |-> a]

CUAItems ==
    {ReasoningItem, MessageItem, CallItem("function_call", "scroll")}
    \cup {CallItem("computer_call", a) : a \in {"click", "teleport"}}

\* A response without "output", or with a list of items (possibly empty).
CUAResponses ==
    {[has_output |-> FALSE, text |-> t, output |-> <<>>] : t \in Texts}
    \cup {[has_output |-> TRUE, text |-> t, output |-> o] :
            t \in Texts, o \in {<<>>} \cup SeqsUpTo(CUAItems, MaxBlocks)}

NoStep == [present |-> FALSE, action |-> NoAction, value |-> "", at |-> 0]

\* oai.py lines 88-159, handle_item after its screenshot: the Step it
\* returns (none for a reasoning item) and the call it leaves pending.
handle_item(item, k, text, last) ==
    CASE item.type = "message" ->
            [step |-> [present |-> TRUE, action |-> "result", value |-> text, at |-> k],
             last |-> last]
      [] item.type = "reasoning" ->
            [step |-> NoStep, last |-> last]
      [] item.type \in {"function_call", "computer_call"} ->
            [step |-> [present |-> TRUE, action |-> parse_action(item.action),
                       value |-> "", at |-> k],
             last |-> item.type]
      [] OTHER ->
            [step |-> [present |-> TRUE, action |-> NoAction, value |-> "", at |-> k],
             last |-> last]

\* oai.py lines 204-208: for item in response["output"]: first Step wins
RECURSIVE CUAItemLoop(_, _, _, _)
CUAItemLoop(acc, resp, k, fault) ==
    IF k > Len(resp.output)
    THEN [acc |-> acc, step |-> NoStep]
    ELSE IF fault.call = "shot" /\ fault.at = k
    THEN [acc |-> RaiseRetrying(acc, ScreenshotError), step |-> NoStep]
    ELSE LET a1 == TakeScreenshot(acc)
             h == handle_item(resp.output[k], k, resp.text, a1.last_action_type)
             a2 == [a1 EXCEPT !.last_action_type = h.last]
         IN  IF h.step.present
             THEN [acc |-> a2, step |-> h.step]
             ELSE CUAItemLoop(a2, resp, k + 1, fault)

\* the call items of response["output"] that parse to an action
CUAParsed(resp) ==
    Cardinality({k \in 1..Len(resp.output) :
                    /\ resp.output[k].type \in {"function_call", "computer_call"}
                    /\ parse_action(resp.output[k].action) # NoAction})

\* oai.py lines 161-208: OaiActor.act
act(acc, resp, fault) ==
    IF acc.last_action_type # NoCall /\ fault.call = "prevshot"
    THEN [acc |-> RaiseRetrying(acc, ScreenshotError), step |-> NoStep]
    ELSE
    LET a1 == IF acc.last_action_type # NoCall
              THEN [TakeScreenshot(acc) EXCEPT !.last_action_type = NoCall]
              ELSE acc
    IN  IF fault.call = "model"
        THEN [acc |-> RaiseRetrying(a1, ModelError), step |-> NoStep]
        ELSE
        LET a2 == [a1 EXCEPT !.calls = 1]
        IN  IF ~resp.has_output
            THEN [acc |-> RaiseRetrying(a2, NoOutputFromModel), step |-> NoStep]
            ELSE CUAItemLoop([a2 EXCEPT !.parsed = CUAParsed(resp)], resp, 1, fault)

\* agent.py lines 169-257: take_action after the cancellation check
CUATakeAction(acc, resp, fault) ==
    LET r == act(acc, resp, fault)
        a0 == r.acc
        step == r.step
    IN  IF a0.raised THEN a0
        ELSE IF ~step.present \/ step.action = NoAction
        THEN IF step.present THEN Saw(a0, "unknown") ELSE Saw(a0, "noaction")
        ELSE IF step.action = "result"
        THEN LET a1 == [Post(Saw(a0, "done"), MsgDone(step.value))
                           EXCEPT !.status = FINISHED, !.saved = FINISHED]
             IN  IF fault.call = "record" /\ fault.at = step.at
                 THEN RaiseRetrying(a1, RecordError)
                 ELSE [RecordAction(a1, "result", step.value) EXCEPT !.done = TRUE]
        ELSE IF ~find_action(step.action)
        THEN RaiseRetrying(Saw(a0, "notfound"), ActionNotFound)
        ELSE IF fault.call = "use" /\ fault.at = step.at
        THEN RaiseRetrying(a0, TroubleUsingAction(DeviceUseError))
        ELSE
        LET u == [a0 EXCEPT !.uses = @ + 1]
            a1 == IF ActionResponds(step.action) THEN Post(u, MsgActionResult) ELSE u
        IN  IF fault.call = "record" /\ fault.at = step.at
            THEN RaiseRetrying(a1, RecordError)
            ELSE RecordAction(a1, step.action, "")


(***************************************************************************)
(* Claude: the context trimming, _maybe_filter_to_n_most_recent_images      *)
(* (agent.py lines 374-423).                                               *)
(*                                                                         *)
(* A history is a sequence of turns; a turn has a role and a list of       *)
(* content blocks; a tool_result block has a content that is a list of     *)
(* items (text, image) or, for an error result, a string.  Items carry an  *)
(* id, so that one image can be told from another.                         *)
(***************************************************************************)
Image(id) == [type |-> "image", id |-> id]
Text(id) == [type |-> "text", id |-> id]

\* a block that is no tool_result: a text or tool_use block
Block(type) == [type |-> type, is_list |-> FALSE, content |-> <<>>, id |-> 0]
\* a tool_use block of the model's answer, with its id
ToolUseBlock(id) == [Block("tool_use") EXCEPT !.id = id]
\* make_api_tool_result(...): a tool_result whose content is a list
ToolResult(content) ==
    [type |-> "tool_result", is_list |-> TRUE, content |-> content, id |-> 0]
\* make_api_tool_result(result, content_block.id): tool_use_id is the block's id
ToolResultFor(id, content) == [ToolResult(content) EXCEPT !.id = id]
\* a tool_result whose content is a string
ErrorResult == [type |-> "tool_result", is_list |-> FALSE, content |-> <<>>, id |-> 0]

Turn(role, content) == [role |-> role, content |-> content]

TurnKinds == {"task", "assistant", "result", "results"}

\* the t-th turn of a history, of the given kind
MakeTurn(kind, t) ==
    CASE kind = "task" -> Turn("user", <<Block("text")>>)
      [] kind = "assistant" -> Turn("assistant", <<Block("text"), Block("tool_use")>>)
      [] kind = "result" -> Turn("user", <<ToolResult(<<Image(10 * t + 1)>>)>>)
      [] kind = "results" ->
            Turn("user", <<ToolResult(<<Text(10 * t + 1), Image(10 * t + 2)>>),
                           ErrorResult,
                           ToolResult(<<Image(10 * t + 3), Image(10 * t + 4)>>)>>)

\* isinstance(content, dict) and content.get("type") == "image"
IsImage(c) == c.type = "image"

\* isinstance(item, dict) and item.get("type") == "tool_result"
IsToolResult(b) == b.type = "tool_result"

\* the images of one block that the function counts and removes
BlockImages(b) ==
    IF IsToolResult(b) /\ b.is_list THEN SelectSeq(b.content, IsImage) ELSE <<>>

RECURSIVE BlocksImages(_)
BlocksImages(blocks) ==
    IF blocks = <<>> THEN <<>>
    ELSE BlockImages(Head(blocks)) \o BlocksImages(Tail(blocks))

\* the images of the tool_result blocks of a history, oldest first
RECURSIVE HistoryImages(_)
HistoryImages(msgs) ==
    IF msgs = <<>> THEN <<>>
    ELSE BlocksImages(Head(msgs).content) \o HistoryImages(Tail(msgs))

\* total_images = sum(1 for tool_result ... for content ... if image)
total_images(msgs) == Len(HistoryImages(msgs))

\* a removal count that is not rounded down to the threshold
ImagesToRemoveExact(total, keep, threshold) == total - keep

\* images_to_remove = total_images - images_to_keep
\* images_to_remove -= images_to_remove % min_removal_threshold
\* a count that is one chunk whenever there are more images than to keep
ImagesToRemoveOneChunk(total, keep, threshold) ==
    IF total > keep THEN threshold ELSE 0

images_to_remove(total, keep, threshold) ==
    (total - keep) - ((total - keep) % threshold)

\* lines 415-420: the new content of one tool_result and the count left
RECURSIVE FilterContent(_, _)
FilterContent(content, n) ==
    IF content = <<>> THEN [content |-> <<>>, left |-> n]
    ELSE LET c == Head(content)
         IN  IF IsImage(c) /\ n > 0
             THEN FilterContent(Tail(content), n - 1)
             ELSE LET r == FilterContent(Tail(content), n)
                  IN  [content |-> <<c>> \o r.content, left |-> r.left]

\* lines 412-421 over the tool_result blocks of one turn
RECURSIVE FilterBlocks(_, _)
FilterBlocks(blocks, n) ==
    IF blocks = <<>> THEN [content |-> <<>>, left |-> n]
    ELSE LET b == Head(blocks)
             f == IF IsToolResult(b) /\ b.is_list
                  THEN FilterContent(b.content, n)
                  ELSE [content |-> b.content, left |-> n]
             r == FilterBlocks(Tail(blocks), f.left)
         IN  [content |-> <<[b EXCEPT !.content = f.content]>> \o r.content,
              left |-> r.left]

\* lines 412-421: for tool_result in tool_result_blocks, in turn order
RECURSIVE FilterTurns(_, _)
FilterTurns(msgs, n) ==
    IF msgs = <<>> THEN <<>>
    ELSE LET f == FilterBlocks(Head(msgs).content, n)
         IN  <<[Head(msgs) EXCEPT !.content = f.content]>>
                \o FilterTurns(Tail(msgs), f.left)

\* a trimming that does nothing
NoFilter(msgs, keep, threshold) == msgs

\* a trimming without the early return for images_to_keep == 0
FilterAlways(msgs, keep, threshold) ==
    FilterTurns(msgs, images_to_remove(total_images(msgs), keep, threshold))

\* _maybe_filter_to_n_most_recent_images(messages, images_to_keep,
\* min_removal_threshold)
maybe_filter_to_n_most_recent_images(msgs, keep, threshold) ==
    IF keep = 0 THEN msgs
    ELSE FilterTurns(msgs, images_to_remove(total_images(msgs), keep, threshold))


(***************************************************************************)
(* The dialect parsers: what canonical action (name, parameters) each      *)
(* agent builds from one payload of its model.  Parameters and payload     *)
(* arguments are functions from key names to values.                       *)
(***************************************************************************)
\* V1Action(name=..., parameters=...)
V1Action(name, parameters) == [name |-> name, parameters |-> parameters]

\* a dict without parameters
EmptyDict == [k \in {} |-> 0]

\* del d[key]
Del(d, key) == [k \in DOMAIN d \ {key} |-> d[k]]

\* d[key] = value
Set(d, key, value) == (key :> value) @@ d

\* Key names as the models write them, with str.lower() and
\* str.replace("_", "") on them.
RawKeys == {"ctrl", "c", "Cmd", "Shift_Key", "ESC"}

lower(key) ==
    CASE key = "Cmd" -> "cmd"
      [] key = "Shift_Key" -> "shift_key"
      [] key = "ESC" -> "esc"
      [] key = "ShiftKey" -> "shiftkey"
      [] OTHER -> key

strip_underscores(key) ==
    CASE key = "shift_key" -> "shiftkey"
      [] key = "Shift_Key" -> "ShiftKey"
      [] OTHER -> key

\* Points and texts the payloads carry.
Points == {<<24, 150>>, <<100, 200>>}
Typed == {"Hello, World!"}

\* a remapping that hands the parameters on as they came
ParamsUnmapped(action_name, action_params) == action_params

\* ---- Claude: agent.py lines 278-295 and _get_mapped_action_params ----
\* _get_mapped_action_params(action_name, action_params), lines 425-444;
\* a hot_key text is given as the list of its '+'-separated parts
get_mapped_action_params(action_name, action_params) ==
    IF action_name = "screenshot" THEN action_params
    ELSE
    LET p1 == IF action_name \in {"move_mouse", "drag_mouse"}
                 /\ "coordinate" \in DOMAIN action_params
              THEN Del(Set(Set(action_params, "x", action_params["coordinate"][1]),
                           "y", action_params["coordinate"][2]),
                       "coordinate")
              ELSE action_params
        p2 == IF action_name = "hot_key" /\ "text" \in DOMAIN p1
              THEN Del(Set(p1, "keys",
                           [k \in 1..Len(p1["text"]) |->
                               strip_underscores(lower(p1["text"][k]))]),
                       "text")
              ELSE p1
    IN  IF action_name = "press_key"
        THEN Set(p2, "key", lower(strip_underscores(p2["key"])))
        ELSE p2

\* lines 278-295, 309-311, 356: the V1Action recorded for a tool_use input
ClaudeCanonical(input_args) ==
    LET action_name == action_mapping[input_args["action"]]
        p1 == IF input_args["action"] = "right_click"
              THEN Set(input_args, "button", "right")
              ELSE input_args
        p2 == IF input_args["action"] = "middle_click"
              THEN Set(p1, "button", "middle")
              ELSE p1
        p3 == Del(p2, "action")
    IN  V1Action(action_name,
                 IF action_name # "take_screenshots"
                 THEN get_mapped_action_params(action_name, p3)
                 ELSE p3)

\* ---- CUA: actor/action_parser.py ----
CUA_KEY_TO_AGENTDESK_KEY ==
    [k \in {"/", "\\", "alt", "arrowdown", "arrowleft", "arrowright", "arrowup",
            "backspace", "capslock", "cmd", "ctrl", "delete", "end", "enter",
            "esc", "home", "insert", "option", "pagedown", "pageup", "shift",
            "space", "super", "tab", "win"} |->
        CASE k = "\\" -> "\\\\"
          [] k = "arrowdown" -> "down"
          [] k = "arrowleft" -> "left"
          [] k = "arrowright" -> "right"
          [] k = "arrowup" -> "up"
          [] k = "cmd" -> "command"
          [] k = "esc" -> "escape"
          [] k = "option" -> "alt"
          [] k = "super" -> "command"
          [] OTHER -> k]

\* a scroll without the change of sign
ScrollClicksUnflipped(scroll_y) == scroll_y \div 10

\* action_args["scroll_y"] // 10 * (-1)
cua_scroll_clicks(scroll_y) == (scroll_y \div 10) * (-1)

\* the keys list of a keypress
cua_keys(keys) ==
    [k \in 1..Len(keys) |->
        IF lower(keys[k]) \in DOMAIN CUA_KEY_TO_AGENTDESK_KEY
        THEN CUA_KEY_TO_AGENTDESK_KEY[lower(keys[k])]
        ELSE lower(keys[k])]

\* a drag that goes to the last point of its path
DragToLastPoint(path) == path[Len(path)]

\* coords = path[0]; if len(path) > 1: coords = path[1]
cua_drag_coords(path) == IF Len(path) > 1 THEN path[2] ELSE path[1]

\* the parameters parse_action builds in the branch of action_type
cua_parameters(action_type, action_args) ==
    CASE action_type = "click" ->
            [x |-> action_args["x"], y |-> action_args["y"],
             button |-> IF "button" \in DOMAIN action_args
                        THEN action_args["button"] ELSE "left"]
      [] action_type = "double_click" ->
            [x |-> action_args["x"], y |-> action_args["y"]]
      [] action_type = "scroll" ->
            [clicks |-> cua_scroll_clicks(action_args["scroll_y"])]
      [] action_type = "type" -> [text |-> action_args["text"]]
      [] action_type = "move" ->
            [x |-> action_args["x"], y |-> action_args["y"]]
      [] action_type = "keypress" -> [keys |-> cua_keys(action_args["keys"])]
      [] action_type = "drag" ->
            LET coords == cua_drag_coords(action_args["path"])
            IN  [x |-> coords.x, y |-> coords.y]
      [] action_type = "wait" ->
            [seconds |-> IF "ms" \in DOMAIN action_args
                         THEN action_args["ms"] \div 1000 ELSE 1]

\* parse_action(action_type, action_args): the actions it returns (none for
\* an action type it has no branch for)
CUACanonical(action_type, action_args) ==
    IF parse_action(action_type) = NoAction THEN <<>>
    ELSE <<V1Action(parse_action(action_type),
                    cua_parameters(action_type, action_args))>>

\* ---- Qwen: actor/action_parser.py ----
\* a scroll with the sign changed
QwenScrollFlipped(pixels) == (pixels \div 10) * (-1)

\* tool_used_json["arguments"]["pixels"] // 10
qwen_scroll_clicks(pixels) == pixels \div 10

\* parameters with x and y when the arguments carry a coordinate
WithCoordinate(parameters, arguments) ==
    IF "coordinate" \in DOMAIN arguments
    THEN Set(Set(parameters, "x", arguments["coordinate"][1]),
             "y", arguments["coordinate"][2])
    ELSE parameters

\* lines 78-146: the V1Action built for one tool call
QwenCanonical(arguments, thought) ==
    LET action_name == arguments["action"]
    IN  CASE action_name = "key" ->
                V1Action("hot_key", [keys |-> arguments["keys"]])
          [] action_name = "type" ->
                V1Action("type_text", [text |-> arguments["text"]])
          [] action_name = "mouse_move" ->
                V1Action("move_mouse", [x |-> arguments["coordinate"][1],
                                        y |-> arguments["coordinate"][2]])
          [] action_name = "left_click" ->
                V1Action("click", WithCoordinate([button |-> "left"], arguments))
          [] action_name = "left_click_drag" ->
                V1Action("drag_mouse", WithCoordinate(EmptyDict, arguments))
          [] action_name = "right_click" ->
                V1Action("click", WithCoordinate([button |-> "right"], arguments))
          [] action_name = "middle_click" ->
                V1Action("click", WithCoordinate([button |-> "middle"], arguments))
          [] action_name = "double_click" ->
                V1Action("double_click", WithCoordinate([button |-> "left"], arguments))
          [] action_name = "scroll" ->
                V1Action("scroll", [clicks |-> qwen_scroll_clicks(arguments["pixels"])])
          [] action_name = "wait" ->
                V1Action("wait", [seconds |-> arguments["time"]])
          [] action_name = "terminate" ->
                V1Action("result", [value |-> <<"Status: ", arguments["status"],
                                                " ", thought>>])
          [] OTHER -> V1Action(action_name, EmptyDict)

\* parse_action(content): one V1Action per tool call, in order
qwen_parse_action(tools_used, thought) ==
    [k \in 1..Len(tools_used) |-> QwenCanonical(tools_used[k], thought)]

(***************************************************************************)
(* State.                                                                  *)
(***************************************************************************)
VARIABLES
    agent,              \* which agent's solve_task runs
    max_steps,          \* solve_task's max_steps argument
    pc,                 \* "poll" | "act" | "returned" | "raised" | "done"
    exit,               \* how solve_task returned: "none" | "done" | "error" | "max_steps"
    i,                  \* the loop variable of `for i in range(max_steps)`
    attempt,            \* tenacity's attempt number of the current take_action call
    status,             \* task.status of the task object the loop holds
    remoteStatus,       \* the tracker's copy: last saved (task.save) or set there
    error,              \* task.error
    solvePost,          \* the message solve_task posted on leaving its loop
    eff,                \* effect of the current invocation of take_action (see Acc0)
    stp,                \* what the attempts of the current step have done so far
    last_action_type    \* OaiActor.last_action_type (set with last_call_id)

\* The message history of the Claude loop and the trimming applied to it.
VARIABLES
    messages,               \* the history (list of turns)
    before,                 \* the history handed to the last trimming
    images_to_keep,         \* the arguments of the last trimming
    min_removal_threshold,
    tstep                   \* "off" | "input" | "filtered" | "sent" | "appended"

config == <<agent, max_steps>>

loopVars == <<agent, max_steps, pc, exit, i, attempt, status, remoteStatus, error,
              solvePost, eff, stp, last_action_type>>

trimVars == <<messages, before, images_to_keep, min_removal_threshold, tstep>>

\* One payload of a model and the canonical actions its dialect's parser
\* builds from it.
VARIABLES
    dialect,                \* "claude" | "cua" | "qwen" ("none": not under study)
    payload,                \* claude: input of a tool_use block; cua: action
                            \* type and arguments; qwen: the tool calls
    parsed,                 \* the list of canonical actions built
    pstep                   \* "off" | "input" | "parsed"

parseVars == <<dialect, payload, parsed, pstep>>

\* The CUA actor's item list over the calls of take_action, as far as the
\* model's calls and their outputs go.
VARIABLES
    items,                  \* OaiActor.items: its calls and their outputs
    sent,                   \* the items the last model call was given
    acalls                  \* the calls of take_action so far

actorVars == <<items, sent, acalls>>

\* One function of the actor, the runner or the benchmark, its input and
\* what it gives for it.
VARIABLES
    fn,                     \* which function ("none": not under study)
    arg,                    \* its input
    out,                    \* its result
    fstep                   \* "off" | "input" | "done"

unitVars == <<fn, arg, out, fstep>>

\* the variables the step loop leaves alone
fnVars == <<trimVars, parseVars, actorVars, unitVars>>

vars == <<loopVars, fnVars>>

\* the history is not under study
TrimIdle ==
    /\ messages = <<>>
    /\ before = <<>>
    /\ images_to_keep = 0
    /\ min_removal_threshold = 1
    /\ tstep = "off"

\* no payload is under study
ParseIdle ==
    /\ dialect = "none"
    /\ payload = <<>>
    /\ parsed = <<>>
    /\ pstep = "off"

\* OaiActor.items after __init__, as far as calls and their outputs go:
\* whether it holds a call item that has no output and that last_call_id
\* does not name (unanswered), whether an output was appended for a call
\* whose action never ran on the device (unrun), and whether the action of
\* the call that last_call_id names has run on the device (dispatched).
NoItems == [unanswered |-> FALSE, unrun |-> FALSE, dispatched |-> FALSE]

\* the actor's item list is not under study
ActorIdle ==
    /\ items = NoItems
    /\ sent = NoItems
    /\ acalls = 0

\* no function is under study
UnitIdle ==
    /\ fn = "none"
    /\ arg = <<>>
    /\ out = <<>>
    /\ fstep = "off"

NoError == <<>>

\* the step has begun: no attempt has failed or got the done signal yet
StepZero ==
    [failedUse |-> FALSE, failedRec |-> FALSE, sawDone |-> FALSE,
     surfaced |-> FALSE, unrecorded |-> FALSE, lateCancel |-> FALSE]

\* solve_task up to its loop: the opening messages are posted, the actor is
\* created, the task is in progress and nothing has been polled yet.
Init ==
    /\ agent \in Agents
    /\ max_steps \in 1..MaxSteps
    /\ pc = "poll"
    /\ exit = "none"
    /\ i = 0
    /\ attempt = 1
    /\ status = IN_PROGRESS
    /\ remoteStatus = IN_PROGRESS
    /\ error = NoError
    /\ solvePost = NoMessage
    /\ eff = Acc0(IN_PROGRESS, IN_PROGRESS, NoCall)
    /\ stp = StepZero
    /\ last_action_type = NoCall
    /\ TrimIdle
    /\ ParseIdle
    /\ ActorIdle
    /\ UnitIdle

(***************************************************************************)
(* The tracker: somebody asks for the task to be cancelled.  A request     *)
(* (CANCELING) may arrive while a step is in flight; a task already        *)
(* CANCELED is one the next poll finds so.  The task is remote, as the     *)
(* benchmark's runner creates it: the request changes the tracker's copy   *)
(* and task.refresh() brings it to the loop.                               *)
(***************************************************************************)
RequestCancel(s) ==
    /\ \/ s = CANCELING /\ pc \in {"poll", "act"} /\ remoteStatus = IN_PROGRESS
       \/ s = CANCELED /\ pc = "poll" /\ remoteStatus \in {IN_PROGRESS, CANCELING}
    /\ remoteStatus' = s
    /\ UNCHANGED <<config, fnVars, pc, exit, i, attempt, status, error, solvePost, eff,
                   stp, last_action_type>>

(***************************************************************************)
(* take_action, entry: `if task.remote: task.refresh()` and the check for  *)
(* CANCELING / CANCELED (claude lines 196-208, cua lines 156-167).         *)
(***************************************************************************)
\* task.status after `if task.remote: task.refresh()`
Refreshed == remoteStatus

\* a check that stops on a task already CANCELED only
StopsOnCanceledOnly(s) == s = CANCELED

\* task.status == CANCELING or task.status == CANCELED
StopsOnStatus(s) == s = CANCELING \/ s = CANCELED

\* if task.status == CANCELING: status = CANCELED; task.save()
CancelSaves(s) == s = CANCELING

Poll ==
    /\ pc = "poll"
    /\ LET s == Refreshed
       IN  IF StopsOnStatus(s)
           THEN /\ status' = IF CancelSaves(s) THEN CANCELED ELSE s
                /\ remoteStatus' = IF CancelSaves(s) THEN CANCELED ELSE remoteStatus
                /\ eff' = [Acc0(status', remoteStatus', last_action_type)
                              EXCEPT !.observed = s, !.done = TRUE]
                /\ pc' = "returned"
           ELSE /\ status' = s
                /\ UNCHANGED remoteStatus
                /\ eff' = [Acc0(s, remoteStatus, last_action_type)
                              EXCEPT !.observed = s]
                /\ pc' = "act"
    /\ UNCHANGED <<config, fnVars, exit, i, attempt, error, solvePost, stp, last_action_type>>

(***************************************************************************)
(* take_action, the rest of its body, with its `except` handler.           *)
(***************************************************************************)
TakeActionEffect(acc, resp, fault) ==
    IF agent = "claude"
    THEN ClaudeTakeAction(acc, resp, fault)
    ELSE CUATakeAction(acc, resp, fault)

Responses == IF agent = "claude" THEN ClaudeResponses ELSE CUAResponses

BlocksOf(resp) == IF agent = "claude" THEN Len(resp.content) ELSE Len(resp.output)

\* whether a failed attempt of the step has dispatched (device.use
\* returned) or recorded (task.record_action returned) an action, and
\* whether an attempt of the step got the model's done signal; whether a
\* failed attempt posted to the task or changed its status, or left an
\* action it had run on the device unrecorded; whether a cancellation
\* request reached the tracker after the poll of an attempt
Accumulate(s, e) ==
    [failedUse |-> s.failedUse \/ (e.raised /\ e.uses > 0),
     failedRec |-> s.failedRec \/ (e.raised /\ e.recs > 0),
     sawDone |-> s.sawDone \/ "done" \in e.saw,
     surfaced |-> s.surfaced
                    \/ (e.raised /\ (e.posts # <<>> \/ e.status # e.observed)),
     unrecorded |-> s.unrecorded \/ (e.raised /\ e.uses # e.drecs),
     lateCancel |-> s.lateCancel \/ remoteStatus = CANCELING]

Act ==
    /\ pc = "act"
    /\ \E resp \in Responses :
       \E fault \in Faults(BlocksOf(resp)) :
          LET e == TakeActionEffect([eff EXCEPT !.saved = remoteStatus], resp, fault)
          IN  /\ eff' = e
              /\ status' = e.status
              /\ remoteStatus' = e.saved
              /\ last_action_type' = e.last_action_type
              /\ stp' = Accumulate(stp, e)
              /\ pc' = IF e.raised THEN "raised" ELSE "returned"
    /\ UNCHANGED <<config, fnVars, exit, i, attempt, error, solvePost>>

(***************************************************************************)
(* tenacity: @retry(stop=stop_after_attempt(5)) around take_action.        *)
(***************************************************************************)
\* a stop condition that never holds
stop_never(n) == FALSE

\* a stop condition that allows one attempt more
stop_after_one_more(n) == n > MaxAttempts

stop_after_attempt(n) == n >= MaxAttempts

\* the attempt raised and the stop condition does not hold: call again
Retry ==
    /\ pc = "raised"
    /\ ~stop_after_attempt(attempt)
    /\ attempt' = attempt + 1
    /\ eff' = Acc0(status, remoteStatus, last_action_type)
    /\ pc' = "poll"
    /\ UNCHANGED <<config, fnVars, exit, i, status, remoteStatus, error, solvePost,
                   stp, last_action_type>>

(***************************************************************************)
(* solve_task (claude lines 149-173, cua lines 102-131).                   *)
(***************************************************************************)
\* what reaches solve_task's `except Exception as e` when the retries stop
Propagated(last) == RetryError(last)

\* except Exception as e: status FAILED, error str(e), save, post, return
GiveUp ==
    /\ pc = "raised"
    /\ stop_after_attempt(attempt)
    /\ LET e == Propagated(eff.exc)
       IN  /\ status' = FAILED
           /\ error' = Str(e)
           /\ remoteStatus' = FAILED
           /\ solvePost' = MsgError(e)
    /\ pc' = "done"
    /\ exit' = "error"
    /\ UNCHANGED <<config, fnVars, i, attempt, eff, stp, last_action_type>>

\* if done: return task
ReturnDone ==
    /\ pc = "returned"
    /\ eff.done
    /\ pc' = "done"
    /\ exit' = "done"
    /\ UNCHANGED <<config, fnVars, i, attempt, status, remoteStatus, error, solvePost,
                   eff, stp, last_action_type>>

\* a range that runs one iteration more
RangeHasNextOffByOne(k, n) == k < n

\* range(max_steps) has another value after k
RangeHasNext(k, n) == k + 1 < n

\* the next iteration of the for loop
NextStep ==
    /\ pc = "returned"
    /\ ~eff.done
    /\ RangeHasNext(i, max_steps)
    /\ i' = i + 1
    /\ attempt' = 1
    /\ stp' = StepZero
    /\ eff' = Acc0(status, remoteStatus, last_action_type)
    /\ pc' = "poll"
    /\ UNCHANGED <<config, fnVars, exit, status, remoteStatus, error, solvePost,
                   last_action_type>>

\* the for loop is exhausted: status FAILED, save, post "Max steps reached"
MaxStepsReached ==
    /\ pc = "returned"
    /\ ~eff.done
    /\ ~RangeHasNext(i, max_steps)
    /\ status' = FAILED
    /\ remoteStatus' = FAILED
    /\ solvePost' = MsgMaxSteps
    /\ pc' = "done"
    /\ exit' = "max_steps"
    /\ UNCHANGED <<config, fnVars, i, attempt, error, eff, stp, last_action_type>>

Next ==
    \/ \E s \in {CANCELING, CANCELED} : RequestCancel(s)
    \/ Poll
    \/ Act
    \/ Retry
    \/ GiveUp
    \/ ReturnDone
    \/ NextStep
    \/ MaxStepsReached

Spec == Init /\ [][Next]_vars

\* The loop with its own steps taken whenever one is possible: every call
\* it makes (model, device, tracker) returns or raises.  The cancellation
\* request is the tracker's and need not come.
LiveSpec ==
    Spec /\ WF_vars(Poll \/ Act \/ Retry \/ GiveUp \/ ReturnDone \/ NextStep
                      \/ MaxStepsReached)

(***************************************************************************)
(* The message history of the Claude loop under trimming.                  *)
(*                                                                         *)
(* The history handed in is any history of up to MaxTurns turns.  Filter   *)
(* applies the trimming, with any arguments to the history handed in and   *)
(* with 3 and 2 inside the loop (agent.py line 212, which trims the list   *)
(* in place); ModelCall is the model's answer appended (lines 214-233),    *)
(* AttemptRaises a call of the attempt raising after the trimming, and     *)
(* AppendToolResults the end of a successful attempt (line 364: the tool   *)
(* results, one screenshot each).                                          *)
(***************************************************************************)
\* the step loop is not under study
LoopIdle ==
    /\ agent = "claude"
    /\ max_steps = 1
    /\ pc = "poll"
    /\ exit = "none"
    /\ i = 0
    /\ attempt = 1
    /\ status = IN_PROGRESS
    /\ remoteStatus = IN_PROGRESS
    /\ error = NoError
    /\ solvePost = NoMessage
    /\ eff = Acc0(IN_PROGRESS, IN_PROGRESS, NoCall)
    /\ stp = StepZero
    /\ last_action_type = NoCall

Histories ==
    UNION {{[t \in 1..n |-> MakeTurn(kinds[t], t)] : kinds \in [1..n -> TurnKinds]} :
              n \in 0..MaxTurns}

TrimInit ==
    /\ LoopIdle
    /\ ParseIdle
    /\ ActorIdle
    /\ UnitIdle
    /\ messages \in Histories
    /\ before = messages
    /\ images_to_keep = 0
    /\ min_removal_threshold = 1
    /\ tstep = "input"

\* messages = self._maybe_filter_to_n_most_recent_images(messages, K, M)
\* It trims the list solve_task holds in place; inside the loop (after an
\* attempt that returned or raised) it is line 212, with 3 and 2.
Filter(K, M) ==
    /\ \/ tstep = "input"
       \/ /\ tstep \in {"appended", "raised"}
          /\ K = ImagesToKeep
          /\ M = MinRemovalThreshold
    /\ before' = messages
    /\ images_to_keep' = K
    /\ min_removal_threshold' = M
    /\ messages' = maybe_filter_to_n_most_recent_images(messages, K, M)
    /\ tstep' = "filtered"
    /\ UNCHANGED <<loopVars, parseVars, actorVars, unitVars>>

\* the trimming applied again, with the same arguments, to what it returned
FilterAgain ==
    /\ tstep = "filtered"
    /\ messages' = maybe_filter_to_n_most_recent_images(
                        messages, images_to_keep, min_removal_threshold)
    /\ tstep' = "refiltered"
    /\ UNCHANGED <<loopVars, parseVars, actorVars, unitVars, before, images_to_keep,
                   min_removal_threshold>>

\* response_params: the t-th turn, an answer with a text block and n
\* tool_use blocks
AssistantTurn(t, n) ==
    Turn("assistant", <<Block("text")>> \o [k \in 1..n |-> ToolUseBlock(10 * t + k)])

\* lines 214-233: the history trimmed at line 212 is sent to the model and
\* its answer is appended to the list take_action was given
ModelCall ==
    /\ tstep = "filtered"
    /\ images_to_keep = ImagesToKeep
    /\ min_removal_threshold = MinRemovalThreshold
    /\ Len(messages) <= MaxTurns
    /\ \E n \in 1..MaxBlocks :
          messages' = Append(messages, AssistantTurn(Len(messages) + 1, n))
    /\ tstep' = "sent"
    /\ UNCHANGED <<loopVars, parseVars, actorVars, unitVars, before, images_to_keep,
                   min_removal_threshold>>

\* lines 368-372: a call made after the trimming raises, the model call
\* (nothing appended) or one after the answer was appended; the handler
\* posts and re-raises, and tenacity, unless this was the 5th attempt,
\* calls take_action again with the list solve_task holds, as the failed
\* attempt left it
AttemptRaises ==
    /\ \/ tstep = "sent"
       \/ /\ tstep = "filtered"
          /\ images_to_keep = ImagesToKeep
          /\ min_removal_threshold = MinRemovalThreshold
    /\ ~stop_after_attempt(attempt)
    /\ attempt' = attempt + 1
    /\ tstep' = "raised"
    /\ UNCHANGED <<config, pc, exit, i, status, remoteStatus, error, solvePost, eff,
                   stp, last_action_type, parseVars, actorVars, unitVars, messages,
                   before, images_to_keep, min_removal_threshold>>

\* line 364: messages.append({"content": tool_result_content, "role": "user"})
\* with one tool result, holding one screenshot, per tool_use block
AppendToolResults ==
    /\ tstep = "sent"
    /\ LET t == Len(messages) + 1
           uses == SelectSeq(messages[Len(messages)].content,
                             LAMBDA b : b.type = "tool_use")
       IN  messages' = Append(messages,
                Turn("user", [k \in 1..Len(uses) |->
                                 ToolResultFor(uses[k].id, <<Image(10 * t + k)>>)]))
    /\ attempt' = 1
    /\ tstep' = "appended"
    /\ UNCHANGED <<config, pc, exit, i, status, remoteStatus, error, solvePost, eff,
                   stp, last_action_type, parseVars, actorVars, unitVars, before,
                   images_to_keep, min_removal_threshold>>

TrimNext ==
    \/ \E K \in 0..MaxKeep, M \in 1..MaxThreshold : Filter(K, M)
    \/ FilterAgain
    \/ ModelCall
    \/ AttemptRaises
    \/ AppendToolResults

TrimSpec == TrimInit /\ [][TrimNext]_vars

(***************************************************************************)
(* The dialect parsers applied to one payload.  The payloads are those     *)
(* with an action name the dialect recognises.                             *)
(***************************************************************************)
\* '+'-joined key texts (as the list of their parts) and key lists
KeyLists == {<<"ctrl", "c">>, <<"Cmd", "Shift_Key">>, <<"ESC">>}

\* the point as the dict {"x": ..., "y": ...} of a CUA payload
XY(pt) == [x |-> pt[1], y |-> pt[2]]

\* inputs of a Claude tool_use block
ClaudePayload ==
    \/ \E a \in {"left_click", "right_click", "middle_click", "double_click",
                 "screenshot", "cursor_position"} :
          payload = [action |-> a]
    \/ \E a \in {"mouse_move", "left_click_drag"}, pt \in Points :
          payload = [action |-> a, coordinate |-> pt]
    \/ \E t \in KeyLists : payload = [action |-> "key", text |-> t]
    \/ \E t \in Typed : payload = [action |-> "type", text |-> t]

\* action type and arguments of a CUA computer_call / function_call
CUAPayload ==
    \/ \E pt \in Points, b \in {"none", "left", "right"} :
          payload = [type |-> "click",
                     args |-> IF b = "none" THEN XY(pt)
                              ELSE Set(XY(pt), "button", b)]
    \/ \E a \in {"double_click", "move"}, pt \in Points :
          payload = [type |-> a, args |-> XY(pt)]
    \/ \E pt \in Points, scroll_y \in -MaxScroll..MaxScroll :
          payload = [type |-> "scroll",
                     args |-> [x |-> pt[1], y |-> pt[2], scroll_x |-> 0,
                               scroll_y |-> scroll_y]]
    \/ \E t \in Typed : payload = [type |-> "type", args |-> [text |-> t]]
    \/ \E keys \in KeyLists : payload = [type |-> "keypress", args |-> [keys |-> keys]]
    \/ \E n \in 1..3 : \E path \in [1..n -> Points] :
          payload = [type |-> "drag", args |-> [path |-> [k \in 1..n |-> XY(path[k])]]]
    \/ \E ms \in {-1, 2000} :
          payload = [type |-> "wait",
                     args |-> IF ms = -1 THEN EmptyDict ELSE [ms |-> ms]]

\* the tool calls of a Qwen response (one tool call)
QwenPayload ==
    \/ \E a \in {"left_click", "right_click", "middle_click", "double_click",
                 "left_click_drag"} :
          \/ payload = <<[action |-> a]>>
          \/ \E pt \in Points : payload = <<[action |-> a, coordinate |-> pt]>>
    \/ \E pt \in Points : payload = <<[action |-> "mouse_move", coordinate |-> pt]>>
    \/ \E keys \in KeyLists : payload = <<[action |-> "key", keys |-> keys]>>
    \/ \E t \in Typed : payload = <<[action |-> "type", text |-> t]>>
    \/ \E pixels \in -MaxScroll..MaxScroll :
          payload = <<[action |-> "scroll", pixels |-> pixels]>>
    \/ payload = <<[action |-> "wait", time |-> 2]>>
    \/ \E st \in {"success", "failure"} :
          payload = <<[action |-> "terminate", status |-> st]>>

ParseInit ==
    /\ LoopIdle
    /\ TrimIdle
    /\ ActorIdle
    /\ UnitIdle
    /\ dialect \in {"claude", "cua", "qwen"}
    /\ CASE dialect = "claude" -> ClaudePayload
         [] dialect = "cua" -> CUAPayload
         [] dialect = "qwen" -> QwenPayload
    /\ parsed = <<>>
    /\ pstep = "input"

ClaudeParse ==
    /\ pstep = "input"
    /\ dialect = "claude"
    /\ parsed' = <<ClaudeCanonical(payload)>>
    /\ pstep' = "parsed"
    /\ UNCHANGED <<loopVars, trimVars, actorVars, unitVars, dialect, payload>>

CUAParse ==
    /\ pstep = "input"
    /\ dialect = "cua"
    /\ parsed' = CUACanonical(payload.type, payload.args)
    /\ pstep' = "parsed"
    /\ UNCHANGED <<loopVars, trimVars, actorVars, unitVars, dialect, payload>>

QwenParse ==
    /\ pstep = "input"
    /\ dialect = "qwen"
    /\ parsed' = qwen_parse_action(payload, "thought")
    /\ pstep' = "parsed"
    /\ UNCHANGED <<loopVars, trimVars, actorVars, unitVars, dialect, payload>>

ParseNext ==
    \/ ClaudeParse
    \/ CUAParse
    \/ QwenParse

ParseSpec == ParseInit /\ [][ParseNext]_vars

\* the action name of the payload, in its dialect
DialectAction ==
    CASE dialect = "claude" -> payload["action"]
      [] dialect = "cua" -> payload.type
      [] dialect = "qwen" -> payload[1]["action"]

(***************************************************************************)
(* The CUA actor over the calls of take_action that solve_task makes, one   *)
(* per step and one per retry (cua/actor/oai.py, cua/agent.py): each call   *)
(* appends the output of the call it left pending, sends the items to the   *)
(* model and appends the model's output items.  The task is not cancelled   *)
(* and the calls are counted up to MaxCalls, which a step's five attempts   *)
(* or MaxCalls steps allow.                                                 *)
(***************************************************************************)
ActorInit ==
    /\ agent = "cua"
    /\ max_steps = MaxCalls
    /\ pc = "poll"
    /\ exit = "none"
    /\ i = 0
    /\ attempt = 1
    /\ status = IN_PROGRESS
    /\ remoteStatus = IN_PROGRESS
    /\ error = NoError
    /\ solvePost = NoMessage
    /\ eff = Acc0(IN_PROGRESS, IN_PROGRESS, NoCall)
    /\ stp = StepZero
    /\ last_action_type = NoCall
    /\ TrimIdle
    /\ ParseIdle
    /\ ActorIdle
    /\ UnitIdle

\* oai.py lines 63-86, record_result_of_previous_action after its
\* screenshot: the output item of the call last_call_id names is appended
\* and the actor forgets the call
OutputAppended(its) ==
    [its EXCEPT !.unrun = @ \/ ~its.dispatched, !.dispatched = FALSE]

\* oai.py lines 203-207, self.items += response["output"]: every call item
\* of the output is in the list, and last_call_id names at most the one
\* handle_item made the step from
ItemsAdded(its, resp, r) ==
    LET calls == {k \in 1..Len(resp.output) :
                    resp.output[k].type \in {"function_call", "computer_call"}}
        named == IF r.step.present /\ ~r.acc.raised THEN {r.step.at} ELSE {}
    IN  [its EXCEPT !.unanswered = @ \/ (calls \ named # {})]

\* one call of take_action by solve_task's loop, after one that raised or
\* that returned without the done signal
ActorTakeAction ==
    /\ acalls < MaxCalls
    /\ ~eff.done
    /\ \E resp \in CUAResponses :
       \E fault \in Faults(Len(resp.output)) :
          LET acc == Acc0(status, remoteStatus, last_action_type)
              r == act(acc, resp, fault)
              e == CUATakeAction(acc, resp, fault)
              recorded == last_action_type # NoCall /\ fault.call # "prevshot"
              i1 == IF recorded THEN OutputAppended(items) ELSE items
              called == r.acc.calls = 1
              i2 == IF called /\ resp.has_output THEN ItemsAdded(i1, resp, r) ELSE i1
          IN  /\ eff' = e
              /\ status' = e.status
              /\ remoteStatus' = e.saved
              /\ last_action_type' = e.last_action_type
              /\ sent' = IF called THEN i1 ELSE sent
              /\ items' = [i2 EXCEPT !.dispatched = @ \/ e.uses > 0]
    /\ acalls' = acalls + 1
    /\ UNCHANGED <<config, pc, exit, i, attempt, error, solvePost, stp, trimVars,
                   parseVars, unitVars>>

ActorNext == ActorTakeAction

ActorSpec == ActorInit /\ [][ActorNext]_vars

(***************************************************************************)
(* Properties.                                                             *)
(***************************************************************************)
\* solve_task has returned
(***************************************************************************)
(* Functions of the actor, the runner and the benchmark, each applied to   *)
(* an input drawn from a bounded set.                                      *)
(***************************************************************************)
\* An item of OaiActor.items: a computer_call_output with its image_url (a
\* screenshot or BASE64_ONE_PIXEL), or an item of another type.
OutputItem(image) == [type |-> "computer_call_output", image_url |-> image]
OtherItem == [type |-> "computer_call", image_url |-> "none"]

\* a clean-up that leaves the items as they are
CleanUpNothing(its, n) == its

\* oai.py lines 45-54, clean_up_old_screenshots with n = self.keep_images:
\* from the last item to the first, the outputs after the n-th get the
\* one-pixel placeholder
RECURSIVE clean_up_old_screenshots(_, _)
clean_up_old_screenshots(its, n) ==
    IF its = <<>> THEN <<>>
    ELSE LET item == its[Len(its)]
             front == SubSeq(its, 1, Len(its) - 1)
         IN  IF item.type = "computer_call_output"
             THEN clean_up_old_screenshots(front, n - 1)
                    \o <<IF n - 1 < 0 THEN OutputItem("pixel") ELSE item>>
             ELSE clean_up_old_screenshots(front, n) \o <<item>>

\* surfkit_agent_runner.py lines 32-274, run: the desktops and trackers it
\* has created and deleted when it returns or raises.  A try that raises
\* is taken to have created its desktop or tracker.
run(fault) ==
    LET Res(dc, dd, tc, td, raised) ==
            [desktops_created |-> dc, desktops_deleted |-> dd,
             trackers_created |-> tc, trackers_deleted |-> td, raised |-> raised]
        failed(a) == IF fault.at = a THEN fault.tries ELSE 0
        d == failed("desktop")
        t == failed("tracker")
    IN  IF d = RunnerTries THEN Res(d, d, 0, 0, TRUE)
        ELSE IF fault.at = "setup" THEN Res(d + 1, d, 0, 0, TRUE)
        ELSE IF t = RunnerTries THEN Res(d + 1, d + 1, t, t, TRUE)
        ELSE IF failed("task") = RunnerTries THEN Res(d + 1, d + 1, t + 1, t + 1, TRUE)
        ELSE IF fault.at = "collect" THEN Res(d + 1, d, t + 1, t, TRUE)
        ELSE Res(d + 1, d + 1, t + 1, t + 1, FALSE)

\* benchmark.py lines 177-182: the stored run of a test case, None when
\* the result file does not exist.
NoRun == [stored |-> FALSE, id |-> <<>>, ai_score |-> -1, human_score |-> -1]
StoredRun(id, ai_score, human_score) ==
    [stored |-> TRUE, id |-> id, ai_score |-> ai_score, human_score |-> human_score]

SelectEverything(testcases, mode) == testcases

\* benchmark.py lines 205-242, load_testcases_and_runs: the test cases the
\* mode keeps, sorted by level, category and id.  Categories and ids are
\* strings, here sequences of characters, and compare as Python compares
\* strings.
select_testcases(testcases, mode) ==
    LET run_all(t) == ~t.run.stored \/ t.run.id # t.id
        rerun_failed(t) ==
            \/ t.run.stored /\ t.run.human_score = 0
            \/ t.run.stored /\ t.run.ai_score = 0 /\ t.run.human_score = -1
            \/ t.run.stored /\ t.run.id # t.id
            \/ ~t.run.stored
        validate_only(t) == t.run.stored /\ t.run.id = t.id
        kept == CASE mode = "run-all" -> SelectSeq(testcases, run_all)
                  [] mode = "rerun-failed" -> SelectSeq(testcases, rerun_failed)
                  [] mode = "validate-only" -> SelectSeq(testcases, validate_only)
        get_level_order(level) ==
            CHOOSE k \in 0..4 : <<"paper", "wood", "bronze", "silver", "gold">>[k + 1] = level
        ord(c) == CHOOSE k \in 1..5 : <<"0", "1", "2", "a", "b">>[k] = c
        RECURSIVE StrLess(_, _)
        StrLess(x, y) ==
            IF x = <<>> THEN y # <<>>
            ELSE IF y = <<>> THEN FALSE
            ELSE IF x[1] # y[1] THEN ord(x[1]) < ord(y[1])
            ELSE StrLess(Tail(x), Tail(y))
        KeyLess(x, y) ==
            IF x.level # y.level
            THEN get_level_order(x.level) < get_level_order(y.level)
            ELSE IF x.category # y.category THEN StrLess(x.category, y.category)
            ELSE StrLess(x.id, y.id)
    IN  SortSeq(kept, KeyLess)

ValidateUnfiltered(check_results) ==
    LET RECURSIVE Sum(_, _)
        Sum(f, k) == IF k = 0 THEN 0 ELSE f[k] + Sum(f, k - 1)
        n == Len(check_results)
    IN  [ai_score |-> IF \E k \in 1..n : check_results[k].score = 0 THEN 0 ELSE 1,
         ai_comment |-> [k \in 1..n |-> <<k, check_results[k].score>>],
         validation_input_tokens |->
             Sum([k \in 1..n |-> check_results[k].validation_input_tokens], n),
         validation_output_tokens |->
             Sum([k \in 1..n |-> check_results[k].validation_output_tokens], n)]

\* validators/base.py lines 26-51, BaseValidator.validate, over the results
\* validate_check returned for the checks: the score, the comment (one
\* part per kept check: which check, its score) and the token sums.
validate(check_results) ==
    LET RECURSIVE Kept(_)
        Kept(k) ==
            IF k > Len(check_results) THEN <<>>
            ELSE IF check_results[k].score # -1
                 THEN <<[check |-> k, cr |-> check_results[k]]>> \o Kept(k + 1)
                 ELSE Kept(k + 1)
        RECURSIVE Sum(_, _)
        Sum(f, k) == IF k = 0 THEN 0 ELSE f[k] + Sum(f, k - 1)
        kept == Kept(1)
        n == Len(kept)
    IN  [ai_score |-> IF \E k \in 1..n : kept[k].cr.score = 0 THEN 0 ELSE 1,
         ai_comment |-> [k \in 1..n |-> <<kept[k].check, kept[k].cr.score>>],
         validation_input_tokens |->
             Sum([k \in 1..n |-> kept[k].cr.validation_input_tokens], n),
         validation_output_tokens |->
             Sum([k \in 1..n |-> kept[k].cr.validation_output_tokens], n)]

\* benchmark.py lines 285-321, run_testcase after the run: the validation
\* loop over a test case with one check.  outcomes[k] is what the
\* validator's model does on the k-th call; validate_check turns a raise
\* into a result of score 0 (cot_gemini_validator.py lines 180-190).
run_validation(outcomes) ==
    LET validate_check(o) ==
            IF o = "raises"
            THEN [score |-> 0, validation_input_tokens |-> 0,
                  validation_output_tokens |-> 0]
            ELSE [score |-> IF o = "pass" THEN 1 ELSE 0,
                  validation_input_tokens |-> 1, validation_output_tokens |-> 1]
        RECURSIVE Loop(_)
        Loop(i_try) ==
            LET scored == validate(<<validate_check(outcomes[i_try + 1])>>)
            IN  IF scored.ai_score > -1
                THEN [status |-> "COMPLETED", written |-> TRUE,
                      calls |-> i_try + 1, ai_score |-> scored.ai_score]
                ELSE IF i_try = ValidationTries - 1
                THEN [status |-> "VALIDATION_FAILED", written |-> FALSE,
                      calls |-> i_try + 1, ai_score |-> 0]
                ELSE Loop(i_try + 1)
    IN  Loop(0)

MaxStepsFirstForAll(values) ==
    IF values # <<>>
    THEN [paper |-> values[1], wood |-> values[1], bronze |-> values[1],
          silver |-> values[1], gold |-> values[1]]
    ELSE [paper |-> 5, wood |-> 25, bronze |-> 50, silver |-> 75, gold |-> 100]

\* benchmark.py lines 119-131, parse_args: config.max_steps from the values
\* of --max-steps; config.py lines 15-21 for the defaults.
parse_max_steps(values) ==
    LET RECURSIVE Pad(_)
        Pad(steps) ==
            IF Len(steps) < 5
            THEN Pad(Append(steps, values[Len(values)]))
            ELSE steps
        padded == Pad(values)
    IN  IF values # <<>>
        THEN [paper |-> padded[1], wood |-> padded[2], bronze |-> padded[3],
              silver |-> padded[4], gold |-> padded[5]]
        ELSE [paper |-> 5, wood |-> 25, bronze |-> 50, silver |-> 75, gold |-> 100]

\* claude_computer_use/agent.py lines 251-254 and 349-359: the metadata of
\* the actions recorded for the responses, one per recorded action, each
\* with the usage of its whole response.
recorded_metadata(responses) ==
    LET RECURSIVE Rec(_)
        Rec(k) ==
            IF k > Len(responses) THEN <<>>
            ELSE [j \in 1..responses[k].actions |->
                     [input_tokens |-> responses[k].input_tokens,
                      output_tokens |-> responses[k].output_tokens]] \o Rec(k + 1)
    IN  Rec(1)

\* surfkit_agent_runner.py lines 166-188: the token totals of the run,
\* summed over the recorded actions.
token_totals(actions) ==
    LET RECURSIVE Sum(_, _)
        Sum(f, k) == IF k = 0 THEN 0 ELSE f[k] + Sum(f, k - 1)
        n == Len(actions)
    IN  [input_tokens |-> Sum([k \in 1..n |-> actions[k].input_tokens], n),
         output_tokens |-> Sum([k \in 1..n |-> actions[k].output_tokens], n)]

UnitInit ==
    LET
        \* the item lists of up to MaxItems items an actor can hold before the
        \* clean-up: the placeholders are older than the screenshots
        ItemLists ==
            {its \in SeqsUpTo({OtherItem, OutputItem("real"), OutputItem("pixel")}, MaxItems)
                    \cup {<<>>} :
                \A j, k \in 1..Len(its) :
                    (j < k /\ its[j].image_url = "real") => its[k].image_url # "pixel"}
        \* What may go wrong in SurfkitAgentRunner.run: nothing; the creation of
        \* the desktop, of the tracker or of the task raising on its first `tries`
        \* tries; the setup command raising; a call made while the trajectory is
        \* collected (wait_for_done, take_screenshots, a check's command) raising.
        RunFaults ==
            {[at |-> "none", tries |-> 0]}
            \cup {[at |-> a, tries |-> t] : a \in {"desktop", "tracker", "task"},
                                           t \in 1..RunnerTries}
            \cup {[at |-> a, tries |-> 1] : a \in {"setup", "collect"}}
        \* The benchmarks: up to MaxCases test cases of a directory of four,
        \* in any listing order, each with no stored run or a stored run
        \* whose id is the test case's or another one.
        TestCases ==
            {[id |-> <<"1">>, category |-> <<"a">>, level |-> "gold"],
             [id |-> <<"1">>, category |-> <<"b">>, level |-> "paper"],
             [id |-> <<"2">>, category |-> <<"a">>, level |-> "paper"],
             [id |-> <<"1", "0">>, category |-> <<"a">>, level |-> "paper"]}
        Runs(id) ==
            {NoRun} \cup {StoredRun(id, a, h) : a \in {-1, 0, 1}, h \in {-1, 0, 1}}
                    \cup {StoredRun(<<"0">>, 1, 1), StoredRun(<<"0">>, 0, -1)}
        Listings(n) ==
            {x \in [1..n -> TestCases] : \A j, k \in 1..n : j # k => x[j] # x[k]}
        RunsOf(ts) ==
            {rs \in [1..Len(ts) -> UNION {Runs(t.id) : t \in TestCases}] :
                \A k \in 1..Len(ts) : rs[k] \in Runs(ts[k].id)}
        TestCaseLists ==
            UNION {UNION {{[k \in 1..n |->
                              [id |-> ts[k].id, category |-> ts[k].category,
                               level |-> ts[k].level, run |-> rs[k]]] :
                            rs \in RunsOf(ts)} : ts \in Listings(n)} :
                   n \in 0..MaxCases}
        \* validators/base.py lines 29-31: what validate_check returned for
        \* each check of the test case.
        CheckResults ==
            UNION {[1..n -> [score : {-1, 0, 1},
                             validation_input_tokens : {1, 2},
                             validation_output_tokens : {0, 1}]] : n \in 0..MaxChecks}
        \* What the validator's model does on each of the calls made for the
        \* one check of a test case: judges it passed or failed, or raises.
        ValidatorOutcomes == [1..ValidationTries -> {"pass", "fail", "raises"}]
        \* benchmark.py line 119: the values of --max-steps, none when the
        \* option is absent.
        MaxStepsValues ==
            UNION {[1..n -> {10, 20, 30}] : n \in 0..MaxValues}
        \* The model responses of a run: their usage and the number of
        \* actions the agent recorded for each.
        ResponseLists ==
            UNION {[1..n -> [input_tokens : 1..MaxUsage, output_tokens : 1..MaxUsage,
                             actions : 1..MaxBlocks]] : n \in 0..MaxResponses}
    IN
    /\ LoopIdle
    /\ TrimIdle
    /\ ParseIdle
    /\ ActorIdle
    /\ fn \in {"clean_up", "run", "select", "validate", "run_validation",
               "max_steps", "tokens"}
    /\ CASE fn = "clean_up" -> arg \in ItemLists
         [] fn = "run" -> arg \in RunFaults
         [] fn = "select" ->
                arg \in [testcases : TestCaseLists,
                         mode : {"run-all", "rerun-failed", "validate-only"}]
         [] fn = "validate" -> arg \in CheckResults
         [] fn = "run_validation" -> arg \in ValidatorOutcomes
         [] fn = "max_steps" -> arg \in MaxStepsValues
         [] fn = "tokens" -> arg \in ResponseLists
    /\ out = <<>>
    /\ fstep = "input"

\* oai.py line 184: self.clean_up_old_screenshots()
CleanUp ==
    /\ fn = "clean_up"
    /\ fstep = "input"
    /\ out' = clean_up_old_screenshots(arg, KeepImages)
    /\ fstep' = "done"
    /\ UNCHANGED <<loopVars, trimVars, parseVars, actorVars, fn, arg>>

\* benchmark.py line 273: testcaserun = runner.run(testcase, config)
Run ==
    /\ fn = "run"
    /\ fstep = "input"
    /\ out' = run(arg)
    /\ fstep' = "done"
    /\ UNCHANGED <<loopVars, trimVars, parseVars, actorVars, fn, arg>>

\* benchmark.py lines 205-242: the mode filter and the sort of
\* load_testcases_and_runs
Select ==
    /\ fn = "select"
    /\ fstep = "input"
    /\ out' = select_testcases(arg.testcases, arg.mode)
    /\ fstep' = "done"
    /\ UNCHANGED <<loopVars, trimVars, parseVars, actorVars, fn, arg>>

\* validators/base.py lines 26-51: BaseValidator.validate
Validate ==
    /\ fn = "validate"
    /\ fstep = "input"
    /\ out' = validate(arg)
    /\ fstep' = "done"
    /\ UNCHANGED <<loopVars, trimVars, parseVars, actorVars, fn, arg>>

\* benchmark.py lines 285-321: the validation of run_testcase
RunValidation ==
    /\ fn = "run_validation"
    /\ fstep = "input"
    /\ out' = run_validation(arg)
    /\ fstep' = "done"
    /\ UNCHANGED <<loopVars, trimVars, parseVars, actorVars, fn, arg>>

\* benchmark.py lines 119-131: parse_args sets config.max_steps
ParseMaxSteps ==
    /\ fn = "max_steps"
    /\ fstep = "input"
    /\ out' = parse_max_steps(arg)
    /\ fstep' = "done"
    /\ UNCHANGED <<loopVars, trimVars, parseVars, actorVars, fn, arg>>

\* surfkit_agent_runner.py lines 160-188: run collects the recorded actions
CountTokens ==
    /\ fn = "tokens"
    /\ fstep = "input"
    /\ out' = token_totals(recorded_metadata(arg))
    /\ fstep' = "done"
    /\ UNCHANGED <<loopVars, trimVars, parseVars, actorVars, fn, arg>>

UnitNext ==
    \/ CleanUp
    \/ Run
    \/ Select
    \/ Validate
    \/ RunValidation
    \/ ParseMaxSteps
    \/ CountTokens

UnitSpec == UnitInit /\ [][UnitNext]_vars

Returned == pc = "done"

\* C1: a step whose first 4 attempts raise and whose 5th succeeds completes
\* normally (task not FAILED) and nothing was dispatched to the device or
\* recorded by any of the 4 failed attempts.
C1_RetryWithoutDuplication ==
    (pc = "returned" /\ attempt = MaxAttempts)
        => (status # FAILED /\ ~stp.failedUse /\ ~stp.failedRec)

\* C2: the loop never starts an (N+1)-th step; when it leaves through the
\* end of `range(max_steps)` exactly N steps ran, the task is FAILED and
\* saved, the "Max steps reached" message is the one posted and the error
\* field is not written; any other exit is a step that returned done or a
\* step whose retries were exhausted, and posts a different message.
C2_StepBudget ==
    /\ i < max_steps
    /\ exit = "max_steps" =>
          /\ Returned
          /\ i = max_steps - 1
          /\ ~eff.done /\ ~eff.raised
          /\ status = FAILED /\ remoteStatus = FAILED
          /\ solvePost = MsgMaxSteps
          /\ error = NoError
    /\ (Returned /\ exit # "max_steps") =>
          /\ exit \in {"done", "error"}
          /\ solvePost # MsgMaxSteps
          /\ exit = "done" => eff.done
          /\ exit = "error" => eff.raised /\ stop_after_attempt(attempt)
                               /\ error # NoError

C2_Witness ==
    Returned /\ exit = "max_steps" /\ max_steps = 3 /\ status = FAILED

\* C3: an attempt that finds the task CANCELING at its entry sets it to
\* CANCELED and saves it; one that finds it CANCELED leaves it so; either
\* way the attempt makes no model call, no device call and no record, it
\* returns done, and no further attempt, retry or step can follow.
C3_Cancellation ==
    eff.observed \in {CANCELING, CANCELED} =>
        /\ pc \in {"returned", "done"}
        /\ eff.done /\ ~eff.raised
        /\ status = CANCELED /\ remoteStatus = CANCELED
        /\ eff.calls = 0 /\ eff.uses = 0 /\ eff.shots = 0 /\ eff.recs = 0
        /\ eff.posts = <<>>
        /\ ~ENABLED Poll /\ ~ENABLED Act /\ ~ENABLED Retry /\ ~ENABLED NextStep
        /\ ~ENABLED MaxStepsReached /\ ~ENABLED GiveUp
        /\ Returned => exit = "done"

C3_Witness ==
    Returned /\ eff.observed = CANCELING /\ status = CANCELED /\ i = 1 /\ attempt = 2

\* C4: a step is attempted at most 5 times; after a 5th raising attempt no
\* retry is possible, and the loop ends with the error stored, the task
\* FAILED and saved, and nothing further enabled.
C4_RetryExhaustion ==
    /\ attempt \in 1..MaxAttempts
    /\ (pc = "raised" /\ attempt = MaxAttempts) => (~ENABLED Retry /\ ENABLED GiveUp)
    /\ (pc = "raised" /\ attempt < MaxAttempts) => (ENABLED Retry /\ ~ENABLED GiveUp)
    /\ exit = "error" =>
          /\ Returned
          /\ attempt = MaxAttempts /\ eff.raised
          /\ status = FAILED /\ remoteStatus = FAILED
          /\ error # NoError
          /\ ~ENABLED Next

C4_Witness ==
    Returned /\ exit = "error" /\ i = 1 /\ attempt = MaxAttempts /\ status = FAILED

\* C5: every exit with status FAILED has posted a message, and when the
\* failure was an exception the error field is the string of the exception
\* the step raised.
C5_FailureReporting ==
    (Returned /\ status = FAILED) =>
        /\ solvePost # NoMessage
        /\ exit = "error" => error = Str(eff.exc)

\* C6: an attempt that meets an action name the dialect does not know
\* raises, and the raise is not retried: the next thing that happens is
\* solve_task ending with the task FAILED.
C6_UnknownActionFatal ==
    [][("unknown" \in eff.saw /\ pc \in {"raised", "returned"})
          => (pc = "raised" /\ eff.uses = 0 /\ pc' = "done" /\ status' = FAILED)]_vars

\* C7: an attempt in which device.find_action finds nothing raises "action
\* not found", and the raise is not retried: the next thing that happens is
\* solve_task ending with the task FAILED.
C7_ActionNotFoundFatal ==
    [][("notfound" \in eff.saw /\ pc \in {"raised", "returned"})
          => (pc = "raised" /\ eff.exc = ActionNotFound
              /\ pc' = "done" /\ status' = FAILED)]_vars

\* C8: a step in which the model gave its done signal ends with exactly one
\* action recorded, named result, carrying the final text, with a
\* screenshot; the task is FINISHED and saved, nothing was dispatched to the
\* device in that step, and the loop stops.
C8_TerminalResult ==
    (stp.sawDone /\ pc \in {"returned", "done"}) =>
        /\ eff.done /\ "done" \in eff.saw
        /\ eff.recs = 1 /\ ~stp.failedRec
        /\ eff.lastRec.name = "result" /\ eff.lastRec.value \in Texts
        /\ eff.lastRec.shot >= 1
        /\ status = FINISHED /\ remoteStatus = FINISHED
        /\ eff.uses = 0 /\ ~stp.failedUse
        /\ Returned => exit = "done"

\* C9: once the status is FINISHED, CANCELED or FAILED it never changes and
\* nothing but the return of solve_task follows.
C9_TerminalOneWay ==
    [][(status \in TerminalStatuses) => (status' = status /\ pc' = "done")]_vars

\* C10: whenever solve_task has returned the status is terminal.
C10_TerminalOnReturn ==
    Returned => status \in TerminalStatuses

\* C11: when the model's response carries no action, the step is a no-op
\* continuation: nothing is recorded or dispatched, the task status stays
\* what the step found, and take_action reports "not done", so that the loop
\* goes on (to the next step, or to the end of its step budget).
C11_NoActionContinuation ==
    ("noaction" \in eff.saw /\ pc \in {"returned", "done"})
        => /\ ~eff.done
           /\ eff.recs = 0
           /\ eff.uses = 0
           /\ pc = "returned" => status = eff.observed
           /\ Returned => exit = "max_steps"

\* C12: when a response carries several actions and no done signal, an
\* invocation of take_action that returns has recorded every one of them
\* (and dispatched every one that is not a screenshot request), none dropped.
C12_EveryActionDispatched ==
    (pc = "returned" /\ "done" \notin eff.saw /\ ~StopsOnStatus(eff.observed))
        => /\ eff.recs = eff.parsed
           /\ eff.uses <= eff.parsed

\* the last trimming has returned (ModelCall has also appended the answer,
\* which holds no image)
Trimmed == tstep \in {"filtered", "sent"}

\* C13: with K > 0 and M >= 1 the trimming of a history with T images
\* removes exactly R = max(0, (T-K) - ((T-K) mod M)) images, the R oldest in
\* turn order, and leaves the T-R newest as they were (T = 10, K = 3, M = 2:
\* 6 removed, 4 left); with T <= K the history is returned unchanged.
C13_TrimCount ==
    (Trimmed /\ images_to_keep > 0)
        => LET T == total_images(before)
               K == images_to_keep
               M == min_removal_threshold
               d == (T - K) - ((T - K) % M)
               R == IF d > 0 THEN d ELSE 0
           IN  /\ total_images(messages) = T - R
               /\ HistoryImages(messages) = SubSeq(HistoryImages(before), R + 1, T)
               /\ (T <= K /\ tstep = "filtered") => messages = before

C13_Witness ==
    /\ tstep = "filtered"
    /\ total_images(before) = 10
    /\ images_to_keep = 3
    /\ min_removal_threshold = 2
    /\ total_images(messages) = 4

\* C14: the history sent to the model by the Claude loop (trimmed with K = 3,
\* M = 2 before every call) holds at most K + M - 1 = 4 screenshot images,
\* however many the history held before; after any trimming with K > 0 of a
\* history with T >= K images, between K and K + M - 1 images are left.
C14_BoundedContext ==
    /\ tstep = "sent"
         => total_images(messages) <= ImagesToKeep + MinRemovalThreshold - 1
    /\ (Trimmed /\ images_to_keep > 0 /\ total_images(before) >= images_to_keep)
         => total_images(messages) \in
               images_to_keep .. (images_to_keep + min_removal_threshold - 1)

C14_Witness ==
    /\ tstep = "sent"
    /\ Len(messages) > MaxTurns
    /\ total_images(before) >= 6
    /\ total_images(messages) = 4

\* C15: the trimming keeps every turn and every block in place and every
\* item that is no image as it was, and each trimmed image is replaced in
\* place by a removal marker instead of being deleted.
C15_TrimPreservesStructure ==
    tstep = "filtered"
        => /\ Len(messages) = Len(before)
           /\ \A t \in 1..Len(before) :
                /\ messages[t].role = before[t].role
                /\ Len(messages[t].content) = Len(before[t].content)
                /\ \A b \in 1..Len(before[t].content) :
                     LET old == before[t].content[b]
                         new == messages[t].content[b]
                     IN  /\ new.type = old.type
                         /\ new.is_list = old.is_list
                         /\ Len(new.content) = Len(old.content)
                         /\ \A j \in 1..Len(old.content) :
                              \/ new.content[j] = old.content[j]
                              \/ /\ IsImage(old.content[j])
                                 /\ new.content[j].type = "removed"

\* C16: with images_to_keep = 0 the trimming returns the history as it was,
\* for every history and every min_removal_threshold.
C16_TrimDisabled ==
    (tstep = "filtered" /\ images_to_keep = 0) => messages = before

C16_Witness ==
    /\ tstep = "filtered"
    /\ images_to_keep = 0
    /\ min_removal_threshold = 2
    /\ total_images(before) >= 6
    /\ messages = before

\* C17: for every payload with an action name its dialect recognises, the
\* parser builds exactly one canonical action, whose name is in the fixed
\* vocabulary and whose required parameters are present (click: x, y, button).
C17_ParserWellFormed ==
    pstep = "parsed"
        => /\ Len(parsed) = 1
           /\ parsed[1].name \in {"click", "double_click", "drag_mouse", "move_mouse",
                                  "type_text", "hot_key", "scroll", "wait",
                                  "take_screenshots", "result"}
           /\ parsed[1].name = "click"
                => {"x", "y", "button"} \subseteq DOMAIN parsed[1].parameters

\* C18: right_click and middle_click yield canonical click with button right
\* and middle; a plain click / left_click yields canonical click whose
\* parameters hold button = left.
C18_ButtonDisambiguation ==
    pstep = "parsed"
        => LET a == DialectAction
               plain == \/ a = "left_click"
                        \/ a = "click" /\ "button" \notin DOMAIN payload.args
               want == CASE a = "right_click" -> "right"
                         [] a = "middle_click" -> "middle"
                         [] OTHER -> "left"
           IN  (plain \/ a \in {"right_click", "middle_click"})
                 => /\ Len(parsed) = 1
                    /\ parsed[1].name = "click"
                    /\ "button" \in DOMAIN parsed[1].parameters
                    /\ parsed[1].parameters["button"] = want

\* C19: for every integer scroll_y the CUA parser yields canonical scroll
\* with clicks = -(scroll_y integer-divided by 10): -30 gives 3, 23 gives -2.
C19_PixelDeltaScroll ==
    (pstep = "parsed" /\ dialect = "cua" /\ payload.type = "scroll")
        => LET scroll_y == payload.args["scroll_y"]
               clicks == parsed[1].parameters["clicks"]
           IN  /\ Len(parsed) = 1
               /\ parsed[1].name = "scroll"
               /\ DOMAIN parsed[1].parameters = {"clicks"}
               /\ clicks = 0 - (scroll_y \div 10)
               /\ scroll_y = -30 => clicks = 3
               /\ scroll_y = 23 => clicks = -2

C19_Witness ==
    /\ pstep = "parsed"
    /\ dialect = "cua"
    /\ payload.type = "scroll"
    /\ payload.args["scroll_y"] = 23
    /\ parsed[1].parameters["clicks"] = -2

\* C20: in each dialect with a scroll action (CUA: negative scroll_y is up;
\* Qwen: positive pixels is up) a scroll up never yields negative canonical
\* clicks and a scroll down never yields positive ones.
C20_ScrollSignConvergence ==
    (pstep = "parsed" /\ DialectAction = "scroll")
        => LET clicks == parsed[1].parameters["clicks"]
               amount == IF dialect = "cua" THEN 0 - payload.args["scroll_y"]
                         ELSE payload[1]["pixels"]
           IN  /\ amount > 0 => clicks >= 0
               /\ amount < 0 => clicks <= 0

C20_Witness ==
    /\ pstep = "parsed"
    /\ dialect = "qwen"
    /\ DialectAction = "scroll"
    /\ payload[1]["pixels"] = -5
    /\ parsed[1].parameters["clicks"] = -1

\* C21: for every drag path of one or more points the canonical drag_mouse
\* goes to the second point when the path has two or more points and to the
\* first when it has one: [[24,150],[100,200]] gives (100,200), [[24,150]]
\* gives (24,150).
C21_DragTarget ==
    (pstep = "parsed" /\ dialect = "cua" /\ payload.type = "drag")
        => LET path == payload.args["path"]
               target == IF Len(path) >= 2 THEN path[2] ELSE path[1]
           IN  /\ Len(parsed) = 1
               /\ parsed[1].name = "drag_mouse"
               /\ parsed[1].parameters = [x |-> target.x, y |-> target.y]
               /\ path = <<XY(<<24, 150>>), XY(<<100, 200>>)>>
                    => parsed[1].parameters = [x |-> 100, y |-> 200]
               /\ path = <<XY(<<24, 150>>)>>
                    => parsed[1].parameters = [x |-> 24, y |-> 150]

C21_Witness ==
    /\ pstep = "parsed"
    /\ dialect = "cua"
    /\ payload.type = "drag"
    /\ payload.args["path"] = <<XY(<<24, 150>>), XY(<<100, 200>>), XY(<<24, 150>>)>>
    /\ parsed[1].parameters = [x |-> 100, y |-> 200]

\* C22: the Claude hot_key text, a '+'-joined key string, becomes the list of
\* its keys in order, each lower-cased, underscore-stripped and resolved
\* through the alias table: "ctrl+c" gives ["ctrl", "c"].
C22_HotKeyText ==
    (pstep = "parsed" /\ dialect = "claude" /\ payload["action"] = "key")
        => LET text == payload["text"]
               keys == parsed[1].parameters["keys"]
           IN  /\ parsed[1].name = "hot_key"
               /\ Len(keys) = Len(text)
               /\ \A k \in 1..Len(text) :
                    LET key == strip_underscores(lower(text[k]))
                    IN  keys[k] = IF key \in DOMAIN CUA_KEY_TO_AGENTDESK_KEY
                                  THEN CUA_KEY_TO_AGENTDESK_KEY[key] ELSE key
               /\ text = <<"ctrl", "c">> => keys = <<"ctrl", "c">>

\* C23: the CUA keypress becomes a hot_key whose keys list has the length
\* and order of the payload's; a key found in the alias table, whatever its
\* case, is replaced by its alias, and every other key is passed through
\* lower-cased with underscores stripped.
C23_KeypressAliasing ==
    (pstep = "parsed" /\ dialect = "cua" /\ payload.type = "keypress")
        => LET raw == payload.args["keys"]
               keys == parsed[1].parameters["keys"]
           IN  /\ parsed[1].name = "hot_key"
               /\ Len(keys) = Len(raw)
               /\ \A k \in 1..Len(raw) :
                    keys[k] = IF lower(raw[k]) \in DOMAIN CUA_KEY_TO_AGENTDESK_KEY
                              THEN CUA_KEY_TO_AGENTDESK_KEY[lower(raw[k])]
                              ELSE strip_underscores(lower(raw[k]))

C24_PostActionObservation ==
    (agent = "claude" /\ eff.calls = 1 /\ "done" \notin eff.saw)
        => /\ eff.results = eff.shots
           /\ eff.recs <= eff.shots /\ eff.shots <= eff.recs + 1
           /\ eff.uses <= eff.shots + 1
           /\ eff.recs > 0 => eff.lastRec.shot = eff.recs
           /\ ~eff.raised => eff.shots = eff.parsed /\ eff.recs = eff.parsed
           /\ (~eff.raised /\ eff.lastRec.name = "take_screenshots")
                => eff.uses < eff.recs

C24_Witness ==
    /\ agent = "claude"
    /\ pc = "returned"
    /\ eff.parsed = 2
    /\ eff.uses = 1
    /\ eff.shots = 2
    /\ eff.results = 2
    /\ eff.recs = 2
    /\ eff.lastRec = [name |-> "take_screenshots", value |-> "", shot |-> 2]

\* C26: a step whose attempt failed and whose later attempt returned has
\* shown nothing of the failure to the task: the failed attempts left its
\* status as they found it and posted no message.
C26_TransientFailuresInternal ==
    (pc = "returned" /\ attempt > 1) => ~stp.surfaced

\* C27: the status is polled before the model call of an attempt, which is
\* made only if the poll saw no cancellation; a CANCELING request that
\* arrives after the poll lets the step in flight complete and is still
\* pending at the step boundary, and no further model call is made once it
\* has arrived.
C27_CooperativeCancellation ==
    /\ (pc = "act" \/ eff.calls = 1)
          => eff.observed # "" /\ ~StopsOnStatus(eff.observed)
    /\ pc = "act" => eff.calls = 0 /\ ~stp.lateCancel
    /\ (pc = "returned" /\ ~eff.done /\ stp.lateCancel) => remoteStatus = CANCELING

\* C29: at every step boundary and when the loop has ended, every action
\* run on the device has been recorded: the device.use executions equal the
\* record_action calls for dispatched actions, in the attempt that returned
\* and in the failed attempts before it.
C29_ExecutedImpliesRecorded ==
    (pc \in {"returned", "done"})
        => eff.uses = eff.drecs /\ ~stp.unrecorded

\* C28: at every model call of the Claude loop, also one made by a retried
\* attempt, the history (as take_action is handed it, before the trimming)
\* starts with the user's task turn, alternates user and assistant turns, and every tool_use block of an assistant turn is
\* answered by exactly one tool_result with its id in the next user turn: a
\* call that was handed such a history leaves one for the next call.
C28_WellFormedHistory ==
    [][LET Ids(turn, type) ==
               {k \in 1..Len(turn.content) : turn.content[k].type = type}
           WellFormed(h) ==
               /\ Len(h) >= 1
               /\ h[1] = Turn("user", <<Block("text")>>)
               /\ \A t \in 1..(Len(h) - 1) : h[t].role # h[t + 1].role
               /\ \A t \in 1..Len(h) :
                     h[t].role = "assistant"
                        => /\ t < Len(h)
                           /\ \A k \in Ids(h[t], "tool_use") :
                                 Cardinality({j \in Ids(h[t + 1], "tool_result") :
                                     h[t + 1].content[j].id = h[t].content[k].id}) = 1
       IN  (tstep \in {"appended", "raised"} /\ tstep' = "filtered" /\ WellFormed(before))
              => WellFormed(messages)]_vars

\* C30: at every model call of the CUA actor, each computer_call or
\* function_call item the model emitted before has its output item in
\* self.items, and every output item appended so far answers a call whose
\* action ran on the device.
C30_CallOutputPairing ==
    (acalls > 0 /\ eff.calls = 1) => ~sent.unanswered /\ ~sent.unrun

\* C31: after clean_up_old_screenshots at most keep_images (5)
\* computer_call_output items hold a screenshot, they are the 5 most recent
\* outputs, every older output holds the one-pixel placeholder, and no item
\* is added, removed or reordered; the model call that follows is sent at
\* most 5 screenshots.
C31_ScreenshotRetention ==
    (fn = "clean_up" /\ fstep = "done")
        => LET Outputs(its) ==
                   {k \in 1..Len(its) : its[k].type = "computer_call_output"}
               Newer(k) == {j \in Outputs(arg) : j > k}
           IN  /\ Len(out) = Len(arg)
               /\ \A k \in 1..Len(arg) : out[k].type = arg[k].type
               /\ \A k \in (1..Len(arg)) \ Outputs(arg) : out[k] = arg[k]
               /\ \A k \in Outputs(arg) :
                     out[k] = IF Cardinality(Newer(k)) < 5
                              THEN arg[k] ELSE OutputItem("pixel")
               /\ Cardinality({k \in Outputs(out) : out[k].image_url = "real"}) <= 5

C31_Witness ==
    /\ fn = "clean_up"
    /\ fstep = "done"
    /\ arg = [k \in 1..7 |-> OutputItem("real")]
    /\ out = [k \in 1..7 |-> IF k <= 2 THEN OutputItem("pixel") ELSE OutputItem("real")]

\* C32: the trimming is idempotent: applied a second time with the same K
\* and M right after the first, it removes no further image and leaves the
\* history equal to the result of the first application.
C32_TrimIdempotent ==
    tstep = "refiltered"
        => /\ messages = maybe_filter_to_n_most_recent_images(
                             before, images_to_keep, min_removal_threshold)
           /\ HistoryImages(messages)
                = HistoryImages(maybe_filter_to_n_most_recent_images(
                                    before, images_to_keep, min_removal_threshold))

C32_Witness ==
    /\ tstep = "refiltered"
    /\ images_to_keep = 1
    /\ min_removal_threshold = 2
    /\ total_images(before) = 4
    /\ total_images(messages) = 2

\* C33: the loop never gets stuck: whatever the model and the device do,
\* solve_task returns, after at most 5 x max_steps attempts of take_action
\* (at most 5 in each of at most max_steps iterations) and so at most
\* 5 x max_steps model calls (at most one in an attempt).
C33_Termination ==
    /\ [](/\ attempt \in 1..5
          /\ i \in 0..(max_steps - 1)
          /\ 5 * i + attempt <= 5 * max_steps
          /\ eff.calls <= 1)
    /\ <>(pc = "done")

C33_Witness ==
    /\ pc = "done"
    /\ exit = "error"
    /\ max_steps = MaxSteps
    /\ i = max_steps - 1
    /\ attempt = 5
    /\ eff.calls = 1

\* C34: every desktop and every tracker that SurfkitAgentRunner.run has
\* created is deleted before run returns or raises, on every exit path.
C34_RunnerCleanup ==
    (fn = "run" /\ fstep = "done")
        => /\ out.desktops_deleted = out.desktops_created
           /\ out.trackers_deleted = out.trackers_created

\* C35: run-all selects exactly the test cases that have no stored run of
\* their own, validate-only exactly those that have one, so the two
\* selections are disjoint and cover all test cases; rerun-failed selects
\* the not-yet-run test cases and those whose stored run failed (its human
\* score, or its AI score when no human score was given, is 0).
C35_ModeSelection ==
    (fn = "select" /\ fstep = "done")
        => LET HasRun(t) == t.run.stored /\ t.run.id = t.id
               Score(t) == IF t.run.human_score # -1 THEN t.run.human_score
                           ELSE t.run.ai_score
               Failed(t) == HasRun(t) /\ Score(t) = 0
               All == {arg.testcases[k] : k \in 1..Len(arg.testcases)}
               Selected == {out[k] : k \in 1..Len(out)}
               AllRun == select_testcases(arg.testcases, "run-all")
               AllValidate == select_testcases(arg.testcases, "validate-only")
           IN  /\ Cardinality(Selected) = Len(out)
               /\ arg.mode = "run-all" => Selected = {t \in All : ~HasRun(t)}
               /\ arg.mode = "validate-only" => Selected = {t \in All : HasRun(t)}
               /\ arg.mode = "rerun-failed"
                    => Selected = {t \in All : ~HasRun(t) \/ Failed(t)}
               /\ Len(AllRun) + Len(AllValidate) = Len(arg.testcases)

\* rerun-failed over a run a human passed although the AI score is 0 and a
\* run that failed: only the second is selected.
C35_Witness ==
    /\ fn = "select" /\ fstep = "done"
    /\ arg.mode = "rerun-failed"
    /\ arg.testcases = <<[id |-> <<"1">>, category |-> <<"a">>, level |-> "gold",
                          run |-> StoredRun(<<"1">>, 0, 1)],
                         [id |-> <<"2">>, category |-> <<"a">>, level |-> "paper",
                          run |-> StoredRun(<<"2">>, 0, -1)]>>
    /\ out = <<[id |-> <<"2">>, category |-> <<"a">>, level |-> "paper",
                run |-> StoredRun(<<"2">>, 0, -1)]>>

\* C36: the validation of run_testcase calls the validator at most 3
\* times; it writes the result file exactly when it returns COMPLETED, and
\* when the validator fails on all 3 calls it returns VALIDATION_FAILED
\* and writes no result file.
C36_ValidationRetry ==
    (fn = "run_validation" /\ fstep = "done")
        => /\ out.calls <= ValidationTries
           /\ out.written <=> out.status = "COMPLETED"
           /\ (\A k \in 1..ValidationTries : arg[k] = "raises")
                => out.status = "VALIDATION_FAILED" /\ ~out.written

\* C37: validate sets ai_score to 0 iff a check result with a score other
\* than -1 has score 0, and to 1 otherwise, also with no checks; results
\* of score -1 are left out of the comment and of the token sums.
C37_ScoreAggregation ==
    (fn = "validate" /\ fstep = "done")
        => LET Counted == {k \in 1..Len(arg) : arg[k].score # -1}
               RECURSIVE Total(_, _)
               Total(S, field) ==
                   IF S = {} THEN 0
                   ELSE LET k == CHOOSE x \in S : TRUE
                        IN  arg[k][field] + Total(S \ {k}, field)
           IN  /\ out.ai_score = 0 <=> \E k \in Counted : arg[k].score = 0
               /\ out.ai_score \in {0, 1}
               /\ {out.ai_comment[j][1] : j \in 1..Len(out.ai_comment)} = Counted
               /\ Len(out.ai_comment) = Cardinality(Counted)
               /\ out.validation_input_tokens = Total(Counted, "validation_input_tokens")
               /\ out.validation_output_tokens = Total(Counted, "validation_output_tokens")

\* A skipped check (score -1) that used tokens and a passed check: the
\* score is 1 and only the passed check is in the comment and the sums.
C37_Witness ==
    /\ fn = "validate" /\ fstep = "done"
    /\ Len(arg) = 2
    /\ arg[1] = [score |-> -1, validation_input_tokens |-> 2,
                 validation_output_tokens |-> 1]
    /\ arg[2] = [score |-> 1, validation_input_tokens |-> 1,
                 validation_output_tokens |-> 1]
    /\ out = [ai_score |-> 1, ai_comment |-> <<(<<2, 1>>)>>,
              validation_input_tokens |-> 1, validation_output_tokens |-> 1]

\* C38: 1 to 5 values of --max-steps go to paper, wood, bronze, silver and
\* gold in that order, the last value to all remaining levels; without
\* the option the defaults are kept.
C38_MaxStepsExpansion ==
    (fn = "max_steps" /\ fstep = "done")
        => LET Level(k) == IF k <= Len(arg) THEN arg[k] ELSE arg[Len(arg)]
           IN  /\ Len(arg) \in 1..5
                    => out = [paper |-> Level(1), wood |-> Level(2),
                              bronze |-> Level(3), silver |-> Level(4),
                              gold |-> Level(5)]
               /\ arg = <<>>
                    => out = [paper |-> 5, wood |-> 25, bronze |-> 50,
                              silver |-> 75, gold |-> 100]

\* --max-steps 10,20,30 gives paper 10, wood 20, bronze, silver, gold 30.
C38_Witness ==
    /\ fn = "max_steps" /\ fstep = "done"
    /\ arg = <<10, 20, 30>>
    /\ out = [paper |-> 10, wood |-> 20, bronze |-> 30, silver |-> 30, gold |-> 30]

\* C39: the token totals of a run count the usage of each model response
\* that produced recorded actions exactly once, also when a response
\* produced several recorded actions.
C39_TokenAccounting ==
    (fn = "tokens" /\ fstep = "done")
        => LET RECURSIVE Usage(_, _)
               Usage(k, field) ==
                   IF k = 0 THEN 0 ELSE arg[k][field] + Usage(k - 1, field)
           IN  /\ out.input_tokens = Usage(Len(arg), "input_tokens")
               /\ out.output_tokens = Usage(Len(arg), "output_tokens")

=============================================================================
